---- MODULE Spec2Model ----
(***************************************************************************)
(* Verification model of astro-float: the significand rounding kernel      *)
(* (src/src/mantissa/mantissa.rs) and the radix conversion engine          *)
(* (src/astro-float-num/src/conv.rs).                                      *)
(*                                                                         *)
(* The word width is a parameter of the design (32 or 64 bits in the       *)
(* builds).  The model instantiates it with DIGIT_BIT_SIZE bits and the    *)
(* exponent range with EXPONENT_MIN .. EXPONENT_MAX of a 5-bit integer, so *)
(* that whole operand spaces can be enumerated.  All word arithmetic keeps its  *)
(* width (results are reduced modulo DIGIT_BASE where the code truncates). *)
(* Word buffers are sequences; index j of the code is index j+1 here.      *)
(***************************************************************************)
EXTENDS Integers, Sequences, FiniteSets, TLC

VARIABLES
    pc,         \* position of the modelled call sequence
    mant,       \* round_mantissa: the word buffer (self.m), least significant word first
    old,        \* round_mantissa: the buffer before the call
    k,          \* round_mantissa: argument n (number of positions rounded away)
    rm,         \* rounding mode of the call
    is_positive,\* round_mantissa: sign flag
    ret,        \* round_mantissa: [ret |-> returned flag, panic |-> slice index out of range,
                \*                  c |-> the local c: 1 is added at position n+1]
    self,       \* conversions: the number convert_to_radix is called on
    radix,      \* conversions: the radix of the call
    out,        \* conversions: the Result of convert_to_radix
    inp,        \* conversions: sign, digits and exponent given to convert_from_radix
    prec,       \* conversions: the precision p given to convert_from_radix
    res,        \* conversions: the Result of convert_from_radix; pow: its Result
    other,      \* second operand: the mantissa m2 of the arithmetic kernels, the number n of pow
    m2_shift,   \* arithmetic kernels: the shift given to abs_add and abs_sub
    result      \* arithmetic kernels: what the call returned; pow: whether ln and exp ran

vars == <<pc, mant, old, k, rm, is_positive, ret, self, radix, out, inp, prec, res,
          other, m2_shift, result>>

(***************************************************************************)
(* Bounds of the model.                                                    *)
(***************************************************************************)
MaxWords == 2

(***************************************************************************)
(* crate::defs                                                             *)
(***************************************************************************)
DIGIT_BIT_SIZE == 4

DIGIT_BASE == 2 ^ DIGIT_BIT_SIZE

DIGIT_MAX == DIGIT_BASE - 1

DIGIT_SIGNIFICANT_BIT == 2 ^ (DIGIT_BIT_SIZE - 1)

Digits == 0 .. DIGIT_MAX

RoundingModes == {"Up", "Down", "FromZero", "ToZero", "ToEven", "ToOdd", "None"}

(***************************************************************************)
(* Word operators of the machine: x >> s, and x << s truncated to a Digit. *)
(***************************************************************************)
Shr(x, s) == x \div (2 ^ s)

Shl(x, s) == (x * (2 ^ s)) % DIGIT_BASE

(***************************************************************************)
(* The integer a buffer stores, and the buffer storing an integer.         *)
(***************************************************************************)
RECURSIVE WordsValueFrom(_, _)
WordsValueFrom(m, j) ==
    IF j > Len(m) THEN 0
    ELSE m[j] + DIGIT_BASE * WordsValueFrom(m, j + 1)

WordsValue(m) == WordsValueFrom(m, 1)

\* The buffer m after the assignment m[i] = v (i is the 0-based index of the code).
SetWord(m, i, v) == [j \in 1 .. Len(m) |-> IF j = i + 1 THEN v ELSE m[j]]

max_bit_len(m) == Len(m) * DIGIT_BIT_SIZE

(***************************************************************************)
(* round_mantissa, lines 656-681: the decision to add 1, from the digit    *)
(* at the rounding position (num), the digit above it (num2) and whether   *)
(* everything below is zero (rem_zero).  Mode None has no arm in this      *)
(* version of the match; it never increments (spec 4.2).                   *)
(* The variants before it are the same match with one arm changed.         *)
(***************************************************************************)
round_decision_UpIgnoresSign(num, rem_zero, num2, mode, positive) ==
    LET eq1 == num = 1 /\ rem_zero
        gt1 == num = 1 /\ ~rem_zero
        gte1 == num = 1
    IN  CASE mode = "Up" -> gte1
          [] mode = "Down" -> (gt1 /\ positive) \/ (gte1 /\ ~positive)
          [] mode = "FromZero" -> gte1
          [] mode = "ToZero" -> gt1
          [] mode = "ToEven" -> gt1 \/ (eq1 /\ num2 % 2 # 0)
          [] mode = "ToOdd" -> gt1 \/ (eq1 /\ num2 % 2 = 0)
          [] OTHER -> FALSE

round_decision_FromZeroStrict(num, rem_zero, num2, mode, positive) ==
    LET eq1 == num = 1 /\ rem_zero
        gt1 == num = 1 /\ ~rem_zero
        gte1 == num = 1
    IN  CASE mode = "Up" -> (gte1 /\ positive) \/ (gt1 /\ ~positive)
          [] mode = "Down" -> (gt1 /\ positive) \/ (gte1 /\ ~positive)
          [] mode = "FromZero" -> gt1
          [] mode = "ToZero" -> gt1
          [] mode = "ToEven" -> gt1 \/ (eq1 /\ num2 % 2 # 0)
          [] mode = "ToOdd" -> gt1 \/ (eq1 /\ num2 % 2 = 0)
          [] OTHER -> FALSE

round_decision_DownIgnoresSign(num, rem_zero, num2, mode, positive) ==
    LET eq1 == num = 1 /\ rem_zero
        gt1 == num = 1 /\ ~rem_zero
        gte1 == num = 1
    IN  CASE mode = "Up" -> (gte1 /\ positive) \/ (gt1 /\ ~positive)
          [] mode = "Down" -> gt1
          [] mode = "FromZero" -> gte1
          [] mode = "ToZero" -> gt1
          [] mode = "ToEven" -> gt1 \/ (eq1 /\ num2 % 2 # 0)
          [] mode = "ToOdd" -> gt1 \/ (eq1 /\ num2 % 2 = 0)
          [] OTHER -> FALSE

round_decision(num, rem_zero, num2, mode, positive) ==
    LET eq1 == num = 1 /\ rem_zero
        gt1 == num = 1 /\ ~rem_zero
        gte1 == num = 1
    IN  CASE mode = "Up" -> (gte1 /\ positive) \/ (gt1 /\ ~positive)
          [] mode = "Down" -> (gt1 /\ positive) \/ (gte1 /\ ~positive)
          [] mode = "FromZero" -> gte1
          [] mode = "ToZero" -> gt1
          [] mode = "ToEven" -> gt1 \/ (eq1 /\ num2 % 2 # 0)
          [] mode = "ToOdd" -> gt1 \/ (eq1 /\ num2 % 2 = 0)
          [] OTHER -> FALSE

(***************************************************************************)
(* round_mantissa, lines 698-710: the carry runs through m[i..]; when it   *)
(* runs off the top the buffer becomes DIGIT_SIGNIFICANT_BIT and the call  *)
(* returns true.  i is the 0-based start index.  The slice m[i..] panics   *)
(* when i > len.                                                           *)
(***************************************************************************)
process_overflows(m, i) ==
    LET self_len == Len(m)
        free == {j \in i .. self_len - 1 : m[j + 1] < DIGIT_MAX}
    IN  IF i > self_len
        THEN [m |-> m, ret |-> FALSE, panic |-> TRUE, c |-> TRUE]
        ELSE IF free # {}
        THEN LET f == CHOOSE j \in free : \A j2 \in free : j <= j2
             IN  [m |-> [j \in 1 .. self_len |->
                            IF j - 1 >= i /\ j - 1 < f THEN 0
                            ELSE IF j - 1 = f THEN m[j] + 1
                            ELSE m[j]],
                  ret |-> FALSE, panic |-> FALSE, c |-> TRUE]
        ELSE [m |-> [j \in 1 .. self_len |->
                        IF j = self_len THEN DIGIT_SIGNIFICANT_BIT
                        ELSE IF j - 1 >= i THEN 0
                        ELSE m[j]],
              ret |-> TRUE, panic |-> FALSE, c |-> TRUE]

(***************************************************************************)
(* round_mantissa, lines 683-696: add 1 at position n+1.                   *)
(***************************************************************************)
add_one(m, i, i1, t2) ==
    LET self_len == Len(m)
        m2 == IF i1 > i THEN SetWord(m, i, 0) ELSE m
    IN  IF i1 < self_len /\ Shr(m2[i1 + 1], t2) + 1 < Shr(DIGIT_BASE, t2)
        THEN [m |-> SetWord(m2, i1, Shl(Shr(m2[i1 + 1], t2) + 1, t2)),
              ret |-> FALSE, panic |-> FALSE, c |-> TRUE]
        ELSE LET m3 == IF i1 < self_len THEN SetWord(m2, i1, 0) ELSE m2
             IN  process_overflows(m3, i1 + 1)

(***************************************************************************)
(* round_mantissa(&mut self, n, rm, is_positive) -> bool.                  *)
(* The result is the buffer after the call, the returned flag, whether the *)
(* call panicked instead of returning, and the local c (line 635).         *)
(***************************************************************************)
round_mantissa(m, n0, mode, positive) ==
    LET self_len == Len(m)
    IN  IF n0 > 0 /\ n0 <= max_bit_len(m)
        THEN LET n == n0 - 1
                 lo == n \div DIGIT_BIT_SIZE
                 rem_zero0 == \A j \in 1 .. lo : m[j] = 0
                 m1 == [j \in 1 .. self_len |-> IF j <= lo THEN 0 ELSE m[j]]
                 np1 == n + 1
                 i == n \div DIGIT_BIT_SIZE
                 i1 == np1 \div DIGIT_BIT_SIZE
                 t == n % DIGIT_BIT_SIZE
                 t2 == np1 % DIGIT_BIT_SIZE
                 num == Shr(m1[i + 1], t) % 2
                 rem_zero == rem_zero0
                             /\ ~(t > 0 /\ Shl(m1[i + 1], DIGIT_BIT_SIZE - t) # 0)
                 num2 == IF i1 < self_len THEN Shr(m1[i1 + 1], t2) % 2 ELSE 0
                 c == round_decision(num, rem_zero, num2, mode, positive)
             IN  IF c
                 THEN add_one(m1, i, i1, t2)
                 ELSE [m |-> SetWord(m1, i,
                                 IF t + 1 >= DIGIT_BIT_SIZE THEN 0
                                 ELSE Shl(Shr(m1[i + 1], t + 1), t + 1)),
                       ret |-> FALSE, panic |-> FALSE, c |-> FALSE]
        ELSE [m |-> m, ret |-> FALSE, panic |-> FALSE, c |-> FALSE]

(***************************************************************************)
(* Mantissa::shift_right (lines 105-133) and Mantissa::dec_len (599-605).  *)
(***************************************************************************)
shift_right(m, n0) ==
    LET idx == n0 \div DIGIT_BIT_SIZE
        shift == n0 % DIGIT_BIT_SIZE
        len == Len(m)
        at(j) == IF j < len THEN m[j + 1] ELSE 0
    IN  IF idx >= len
        THEN [j \in 1 .. len |-> 0]
        ELSE IF shift > 0
        THEN [j \in 1 .. len |->
                 Shr(at(idx + j) * DIGIT_BASE + at(idx + j - 1), shift) % DIGIT_BASE]
        ELSE IF idx > 0
        THEN [j \in 1 .. len |-> at(idx + j - 1)]
        ELSE m

dec_len(n0, l) == IF n0 > l THEN n0 - l ELSE 0

(***************************************************************************)
(* Mantissa::new (lines 41-48) with bit_len_to_digit_len (lines 31-33):    *)
(* the zero-filled buffer of at least p bits.                              *)
(***************************************************************************)
bit_len_to_digit_len(p) == (p + DIGIT_BIT_SIZE - 1) \div DIGIT_BIT_SIZE

new_words(p) == [j \in 1 .. bit_len_to_digit_len(p) |-> 0]

(***************************************************************************)
(* crate::defs of the conversion engine.  WORD_BIT_SIZE is the word width  *)
(* under its later name; the exponent is a machine integer, instantiated   *)
(* here with 5 bits.                                                       *)
(***************************************************************************)
WORD_BIT_SIZE == DIGIT_BIT_SIZE

WORD_MAX == DIGIT_MAX

EXPONENT_MIN == -16

EXPONENT_MAX == 15

Radixes == {"Bin", "Oct", "Dec", "Hex"}

Signs == {"Pos", "Neg"}

(***************************************************************************)
(* BigFloatNumber: sign s, exponent e, mantissa words m with bit length n, *)
(* and the inexact flag.  Result<T, Error> is a record: ok, the error kind *)
(* (with the sign an ExponentOverflow carries) and the value.              *)
(***************************************************************************)
Number(s, e, m, n, inexact) == [s |-> s, e |-> e, m |-> m, n |-> n, inexact |-> inexact]

NoNumber == Number("Pos", 0, <<>>, 0, FALSE)

NoDigits == [s |-> "Pos", digits |-> <<>>, e |-> 0]

Ok(v) == [ok |-> TRUE, err |-> "", errsign |-> "Pos", v |-> v]

NumErr(kind, sign) == [ok |-> FALSE, err |-> kind, errsign |-> sign, v |-> NoNumber]

DigitsErr(kind, sign) == [ok |-> FALSE, err |-> kind, errsign |-> sign, v |-> NoDigits]

\* variant: division rounding toward minus infinity
TruncDiv_Floor(a, b) == a \div b

\* Rust's integer division, which truncates toward zero.
TruncDiv(a, b) == IF a >= 0 THEN a \div b ELSE -((-a) \div b)

Abs(a) == IF a >= 0 THEN a ELSE -a

(***************************************************************************)
(* conv_to_binary (lines 432-442): one digit per mantissa bit, most        *)
(* significant first; the exponent passes through.                         *)
(***************************************************************************)
conv_to_binary(x) ==
    LET len == Len(x.m)
        total == len * WORD_BIT_SIZE
        \* position q (1-based, from the top) is bit i of word v
        bit(q) == LET v == x.m[len - ((q - 1) \div WORD_BIT_SIZE)]
                      i == WORD_BIT_SIZE - 1 - ((q - 1) % WORD_BIT_SIZE)
                  IN  Shr(v, i) % 2
    IN  Ok([s |-> x.s, digits |-> [q \in 1 .. total |-> bit(q)], e |-> x.e])

(***************************************************************************)
(* conv_to_commensurable (lines 383-430), radix 2^shift.  The loop state   *)
(* is the digits pushed (ret), the double word d, the bit position done    *)
(* and the index j of the next word the iterator yields (0: exhausted).    *)
(***************************************************************************)
RECURSIVE to_commensurable_loop(_, _, _, _, _, _)
to_commensurable_loop(m, shift, ret1, d, done, j) ==
    LET digit == Shr(d, done) % (2 ^ shift)
        ret2 == Append(ret1, digit)
    IN  IF done < shift
        THEN LET d1 == (d * DIGIT_BASE) % (DIGIT_BASE * DIGIT_BASE)
             IN  IF j >= 1
                 THEN to_commensurable_loop(m, shift, ret2, d1 + m[j],
                                            done + WORD_BIT_SIZE - shift, j - 1)
                 ELSE [ret |-> ret2, d |-> d1, done |-> done]
        ELSE to_commensurable_loop(m, shift, ret2, d, done - shift, j)

conv_to_commensurable(x, shift) ==
    LET rem == Abs(x.e) % shift
        adjust == rem # 0 /\ x.e > 0
        e_shift == IF adjust THEN shift - rem ELSE rem
        e == IF adjust THEN TruncDiv(x.e, shift) + 1 ELSE TruncDiv(x.e, shift)
        len == Len(x.m)
        l == to_commensurable_loop(x.m, shift, <<>>, x.m[len],
                                   WORD_BIT_SIZE - shift + e_shift, len - 1)
        done == IF l.done < shift THEN l.done + WORD_BIT_SIZE - shift ELSE l.done
        ret2 == IF l.done > 0
                THEN Append(l.ret, Shr(l.d, done) % (2 ^ shift))
                ELSE l.ret
    IN  Ok([s |-> x.s, digits |-> ret2, e |-> e])

(***************************************************************************)
(* The facade of num.rs under the conversions: the bit length of a buffer  *)
(* (update_bit_len), the zero of precision p (new), set_precision, which   *)
(* rounds with round_mantissa, carries into the exponent and resizes the   *)
(* buffer, subnormalize, which shifts right by EXPONENT_MIN - e and records*)
(* lost bits in the inexact flag, and cmp, the order of the real values    *)
(* sign * frac(m) * 2^e.                                                   *)
(***************************************************************************)
RECURSIVE BitLen(_)
BitLen(v) == IF v = 0 THEN 0 ELSE 1 + BitLen(v \div 2)

\* the index of the most significant non-zero word (0: none), the bit length
\* of the buffer, and whether any of the cnt low bits is set
RECURSIVE TopWord(_, _)
TopWord(m, j) == IF j = 0 \/ m[j] # 0 THEN j ELSE TopWord(m, j - 1)

find_bit_len(m) ==
    LET t == TopWord(m, Len(m))
    IN  IF t = 0 THEN 0 ELSE (t - 1) * DIGIT_BIT_SIZE + BitLen(m[t])

low_bits_nonzero(m, cnt) ==
    \E j \in 1 .. Len(m) :
        LET lo == (j - 1) * DIGIT_BIT_SIZE
        IN  IF lo + DIGIT_BIT_SIZE <= cnt THEN m[j] # 0
            ELSE lo < cnt /\ m[j] % (2 ^ (cnt - lo)) # 0

new_number(p) == Number("Pos", 0, new_words(p), 0, FALSE)

round_p(p) == ((p + WORD_BIT_SIZE - 1) \div WORD_BIT_SIZE) * WORD_BIT_SIZE

is_zero(x) == x.n = 0

\* the number after round_mantissa returned r: the carry goes into the
\* exponent and the buffer keeps its plen high words
set_precision_rounded(x, plen, lost, r) ==
    LET m2 == [j \in 1 .. plen |-> r.m[j + Len(x.m) - plen]]
    IN  IF r.panic
        THEN NumErr("panic", x.s)
        ELSE IF r.ret /\ x.e = EXPONENT_MAX
        THEN NumErr("ExponentOverflow", x.s)
        ELSE Ok(Number(x.s, IF r.ret THEN x.e + 1 ELSE x.e, m2, find_bit_len(m2),
                       x.inexact \/ lost))

set_precision(x, p0, mode) ==
    LET p == round_p(p0)
        bits == max_bit_len(x.m)
        len == Len(x.m)
        plen == p \div WORD_BIT_SIZE
    IN  IF bits > p
        THEN set_precision_rounded(x, plen, low_bits_nonzero(x.m, bits - p),
                                   round_mantissa(x.m, bits - p, mode, x.s = "Pos"))
        ELSE IF bits < p
        THEN LET m2 == [j \in 1 .. plen |-> IF j > plen - len THEN x.m[j - (plen - len)] ELSE 0]
             IN  Ok(Number(x.s, x.e, m2, find_bit_len(m2), x.inexact))
        ELSE Ok(x)

subnormalize(x, e) ==
    LET bits == max_bit_len(x.m)
        shift == EXPONENT_MIN - e
        lost == low_bits_nonzero(x.m, IF shift >= bits THEN bits ELSE shift)
        m2 == shift_right(x.m, IF shift >= bits THEN bits ELSE shift)
    IN  Number(x.s, EXPONENT_MIN, m2, dec_len(x.n, shift), x.inexact \/ lost)

\* the exponent of the leading one bit, and the bits below it left-aligned
\* in a field of width w
TopExponent(x) == x.e - (max_bit_len(x.m) - find_bit_len(x.m))

Aligned(x, w) == WordsValue(x.m) * 2 ^ (w - find_bit_len(x.m))

cmp(a, b) ==
    LET za == find_bit_len(a.m) = 0
        zb == find_bit_len(b.m) = 0
        sa == IF a.s = "Pos" THEN 1 ELSE -1
        w == IF find_bit_len(a.m) > find_bit_len(b.m)
             THEN find_bit_len(a.m) ELSE find_bit_len(b.m)
    IN  IF za /\ zb THEN 0
        ELSE IF za THEN (IF b.s = "Pos" THEN -1 ELSE 1)
        ELSE IF zb THEN sa
        ELSE IF a.s # b.s THEN sa
        ELSE IF TopExponent(a) > TopExponent(b) THEN sa
        ELSE IF TopExponent(a) < TopExponent(b) THEN -sa
        ELSE IF Aligned(a, w) > Aligned(b, w) THEN sa
        ELSE IF Aligned(a, w) < Aligned(b, w) THEN -sa
        ELSE 0

(***************************************************************************)
(* conv_from_binary (lines 66-112).  The loop walks the digits from the    *)
(* last one, packing them into words from the least significant word up;   *)
(* i is the index of the digit visited, words the words written so far.    *)
(***************************************************************************)
RECURSIVE from_binary_loop(_, _, _, _, _)
from_binary_loop(digits, i, d, shift, words) ==
    IF i = 0
    THEN [invalid |-> FALSE,
          words |-> IF shift > 0 THEN Append(words, d) ELSE words]
    ELSE IF digits[i] > 1
    THEN [invalid |-> TRUE, words |-> words]
    ELSE LET d1 == d + Shl(digits[i], shift)
         IN  IF shift + 1 = WORD_BIT_SIZE
             THEN from_binary_loop(digits, i - 1, 0, 0, Append(words, d1))
             ELSE from_binary_loop(digits, i - 1, d1, shift + 1, words)

conv_from_binary(sign, digits, e, p, mode) ==
    IF Len(digits) = 0
    THEN Ok(new_number(p))
    ELSE LET rem == Len(digits) % WORD_BIT_SIZE
             shift == IF rem # 0 THEN WORD_BIT_SIZE - rem ELSE 0
             l == from_binary_loop(digits, Len(digits), 0, shift, <<>>)
             size == bit_len_to_digit_len(Len(digits))
             mantissa == [j \in 1 .. size |-> IF j <= Len(l.words) THEN l.words[j] ELSE 0]
         IN  IF l.invalid
             THEN NumErr("InvalidArgument", sign)
             ELSE set_precision(Number(sign, e, mantissa, find_bit_len(mantissa), FALSE),
                                p, mode)

(***************************************************************************)
(* conv_from_commensurable (lines 115-222), radix 2^shift.                 *)
(***************************************************************************)
RECURSIVE BitOr(_, _)
BitOr(a, b) ==
    IF a = 0 THEN b
    ELSE IF b = 0 THEN a
    ELSE (IF a % 2 = 1 \/ b % 2 = 1 THEN 1 ELSE 0) + 2 * BitOr(a \div 2, b \div 2)

\* lines 141-145: the left shifts that bring the first non-zero digit's top
\* bit to the significant bit; v is a u8
RECURSIVE first_digit_shift(_, _, _)
first_digit_shift(v, significant_bit, count) ==
    IF (v \div significant_bit) % 2 # 0
    THEN count
    ELSE first_digit_shift((v * 2) % 256, significant_bit, count + 1)

\* variant: the scan does not count the zero digits
RECURSIVE from_commensurable_scan_NoZeroCount(_, _, _, _, _)
from_commensurable_scan_NoZeroCount(digits, i, shift, e_shift, zeroes) ==
    IF i > Len(digits)
    THEN [invalid |-> FALSE, e_shift |-> e_shift, zeroes |-> zeroes, first_shift |-> 0]
    ELSE IF digits[i] = 0
    THEN from_commensurable_scan_NoZeroCount(digits, i + 1, shift, e_shift - shift, zeroes)
    ELSE IF digits[i] >= 2 ^ shift
    THEN [invalid |-> TRUE, e_shift |-> e_shift, zeroes |-> zeroes, first_shift |-> 0]
    ELSE LET fs == first_digit_shift(digits[i], 2 ^ (shift - 1), 0)
         IN  [invalid |-> FALSE, e_shift |-> e_shift - fs, zeroes |-> zeroes,
              first_shift |-> fs]

\* lines 130-148: the scan of the leading zero digits
RECURSIVE from_commensurable_scan(_, _, _, _, _)
from_commensurable_scan(digits, i, shift, e_shift, zeroes) ==
    IF i > Len(digits)
    THEN [invalid |-> FALSE, e_shift |-> e_shift, zeroes |-> zeroes, first_shift |-> 0]
    ELSE IF digits[i] = 0
    THEN from_commensurable_scan(digits, i + 1, shift, e_shift - shift, zeroes + 1)
    ELSE IF digits[i] >= 2 ^ shift
    THEN [invalid |-> TRUE, e_shift |-> e_shift, zeroes |-> zeroes, first_shift |-> 0]
    ELSE LET fs == first_digit_shift(digits[i], 2 ^ (shift - 1), 0)
         IN  [invalid |-> FALSE, e_shift |-> e_shift - fs, zeroes |-> zeroes,
              first_shift |-> fs]

\* lines 170-190: the fill loop; w is the 1-based index of the word the
\* reversed iterator dst yields next, 0 once it is exhausted
RECURSIVE from_commensurable_fill(_, _, _, _, _, _, _)
from_commensurable_fill(digits, i, shift, filled, d, w, m) ==
    IF i > Len(digits)
    THEN [invalid |-> FALSE, m |-> m, d |-> d, w |-> w]
    ELSE IF digits[i] >= 2 ^ shift
    THEN [invalid |-> TRUE, m |-> m, d |-> d, w |-> w]
    ELSE IF filled <= WORD_BIT_SIZE
    THEN from_commensurable_fill(digits, i + 1, shift, filled + shift,
                                 BitOr(d, Shl(digits[i], WORD_BIT_SIZE - filled)), w, m)
    ELSE LET d1 == BitOr(d, Shr(digits[i], filled - WORD_BIT_SIZE))
             f2 == filled - WORD_BIT_SIZE
             d2 == IF f2 > 0 THEN Shl(digits[i], WORD_BIT_SIZE - f2) ELSE 0
         IN  IF w >= 1
             THEN from_commensurable_fill(digits, i + 1, shift, f2 + shift, d2, w - 1,
                                          SetWord(m, w - 1, d1))
             ELSE [invalid |-> FALSE, m |-> m, d |-> d1, w |-> w]

\* line 218, and lines 209-213: the sticky bit of a subnormal result
from_commensurable_sticky(sub, p, mode) ==
    set_precision(IF sub.inexact
                  THEN [sub EXCEPT !.m = SetWord(sub.m, 0, BitOr(sub.m[1], 1))]
                  ELSE sub,
                  p, mode)

\* lines 204-207
from_commensurable_subnormal(wide, e, p, mode) ==
    IF ~wide.ok THEN wide ELSE from_commensurable_sticky(subnormalize(wide.v, e), p, mode)

\* lines 192-220 on the filled buffer m1
from_commensurable_number(sign, m1, e, p, mode) ==
    IF e < EXPONENT_MIN
    THEN from_commensurable_subnormal(
             IF p + WORD_BIT_SIZE > max_bit_len(m1)
             THEN set_precision(Number(sign, EXPONENT_MIN, m1, max_bit_len(m1), FALSE),
                                p + WORD_BIT_SIZE, "None")
             ELSE Ok(Number(sign, EXPONENT_MIN, m1, max_bit_len(m1), FALSE)),
             e, p, mode)
    ELSE set_precision(Number(sign, e, m1, max_bit_len(m1), FALSE), p, mode)

\* lines 170-196 on the outcome of the fill loop
from_commensurable_filled(sign, fill, e, p, mode) ==
    IF fill.invalid
    THEN NumErr("InvalidArgument", sign)
    ELSE from_commensurable_number(
             sign,
             IF fill.d > 0 /\ fill.w >= 1 THEN SetWord(fill.m, fill.w - 1, fill.d) ELSE fill.m,
             e, p, mode)

\* lines 161-220 with the exponent e of line 159
from_commensurable_exponent(sign, digits, shift, p, mode, scan, m0, e) ==
    IF e > EXPONENT_MAX
    THEN NumErr("ExponentOverflow", sign)
    ELSE from_commensurable_filled(
             sign,
             from_commensurable_fill(digits, scan.zeroes + 1, shift,
                                     shift - scan.first_shift, 0, Len(m0), m0),
             e, p, mode)

\* lines 150-168 on the outcome of the scan; e0 * shift + e_shift is taken
\* in an isize twice as wide as the exponent, where it cannot wrap
from_commensurable_scanned(sign, digits, e0, shift, p, mode, scan) ==
    IF scan.invalid
    THEN NumErr("InvalidArgument", sign)
    ELSE IF scan.zeroes = Len(digits)
    THEN Ok(Number(sign, 0, new_words(p), 0, FALSE))
    ELSE from_commensurable_exponent(
             sign, digits, shift, p, mode, scan,
             new_words((Len(digits) - scan.zeroes) * shift + WORD_BIT_SIZE),
             e0 * shift + scan.e_shift)

conv_from_commensurable(sign, digits, e0, shift, p, mode) ==
    from_commensurable_scanned(sign, digits, e0, shift, p, mode,
                               from_commensurable_scan(digits, 1, shift, 0, 0))

(***************************************************************************)
(* The arithmetic of num.rs the decimal conversions use, always with       *)
(* RoundingMode::None: the exact result cut to p bits.  A number is read   *)
(* as Odd(x).i * 2^Odd(x).x with i odd, and make_number builds the p-bit   *)
(* number of the integer i scaled by 2^x: normalised, truncated, failing   *)
(* above EXPONENT_MAX and going subnormal below EXPONENT_MIN.              *)
(***************************************************************************)
RECURSIVE TrailingZeros(_)
TrailingZeros(v) == IF v = 0 \/ v % 2 = 1 THEN 0 ELSE 1 + TrailingZeros(v \div 2)

RECURSIVE LowZeroWords(_, _)
LowZeroWords(m, j) == IF j <= Len(m) /\ m[j] = 0 THEN 1 + LowZeroWords(m, j + 1) ELSE 0

Odd(x) ==
    LET z == LowZeroWords(x.m, 1)
        v == WordsValueFrom(x.m, z + 1)
        tz == TrailingZeros(v)
    IN  [i |-> v \div (2 ^ tz),
         x |-> x.e - max_bit_len(x.m) + z * DIGIT_BIT_SIZE + tz]

\* word j of the integer i * 2^sh (sh may be negative)
ShiftedWord(i, sh, j) ==
    LET d == sh - (j - 1) * DIGIT_BIT_SIZE
    IN  IF d >= DIGIT_BIT_SIZE THEN 0
        ELSE IF d >= 0 THEN ((i % DIGIT_BASE) * 2 ^ d) % DIGIT_BASE
        ELSE IF -d > 30 THEN 0
        ELSE (i \div (2 ^ (-d))) % DIGIT_BASE

SignProduct(s1, s2) == IF s1 = s2 THEN "Pos" ELSE "Neg"

make_number(s, i, x, p, sticky) ==
    LET l == BitLen(i)
        plen == p \div WORD_BIT_SIZE
        cut == l > p /\ i % (2 ^ (l - p)) # 0
        e == x + l
        shift == EXPONENT_MIN - e
        top == [j \in 1 .. plen |-> ShiftedWord(i, p - l, j)]
        sub == [j \in 1 .. plen |-> ShiftedWord(i, p - l - shift, j)]
        lost == IF shift >= p THEN TRUE ELSE low_bits_nonzero(top, shift)
    IN  IF i = 0
        THEN Ok(Number(s, 0, new_words(p), 0, sticky))
        ELSE IF e > EXPONENT_MAX
        THEN NumErr("ExponentOverflow", s)
        ELSE IF e < EXPONENT_MIN
        THEN Ok(Number(s, IF find_bit_len(sub) = 0 THEN 0 ELSE EXPONENT_MIN, sub,
                       find_bit_len(sub), TRUE))
        ELSE Ok(Number(s, e, top, p, sticky \/ cut))

from_word(v, p) ==
    LET need == IF round_p(p) > round_p(BitLen(v)) THEN round_p(p) ELSE round_p(BitLen(v))
    IN  make_number("Pos", v, 0, need, FALSE)

set_sign(x, s) == [x EXCEPT !.s = s]

\* the product of ra.i * 2^ra.x and rb.i * 2^rb.x; the low t bits of rb.i
\* are multiplied apart so that no intermediate exceeds the host integer
mul_odd(s, ra, rb, p) ==
    LET over == BitLen(ra.i) + BitLen(rb.i) - 30
        t == IF over > 0 THEN over ELSE 0
        hi == rb.i \div (2 ^ t)
        lo == rb.i % (2 ^ t)
        i == ra.i * hi + (ra.i * lo) \div (2 ^ t)
        cut == (ra.i * lo) % (2 ^ t) # 0
    IN  make_number(s, i, ra.x + rb.x + t, p, cut)

mul(a, b, p) ==
    IF is_zero(a) \/ is_zero(b)
    THEN Ok(Number(SignProduct(a.s, b.s), 0, new_words(p), 0, FALSE))
    ELSE mul_odd(SignProduct(a.s, b.s), Odd(a), Odd(b), p)

RECURSIVE LongDiv(_, _, _, _)
LongDiv(q, rem, b, steps) ==
    IF steps = 0
    THEN [q |-> q, rem |-> rem]
    ELSE IF 2 * rem >= b
    THEN LongDiv(2 * q + 1, 2 * rem - b, b, steps - 1)
    ELSE LongDiv(2 * q, 2 * rem, b, steps - 1)

\* the quotient of ra.i * 2^ra.x by rb.i * 2^rb.x to p + 2 bits
div_odd(s, ra, rb, p) ==
    LET want == p + 2 + BitLen(rb.i) - BitLen(ra.i)
        scale == IF want > 0 THEN want ELSE 0
        d == LongDiv(ra.i \div rb.i, ra.i % rb.i, rb.i, scale)
    IN  make_number(s, d.q, ra.x - rb.x - scale, p, d.rem # 0)

div(a, b, p) ==
    IF is_zero(b)
    THEN NumErr("DivisionByZero", a.s)
    ELSE IF is_zero(a)
    THEN Ok(Number(SignProduct(a.s, b.s), 0, new_words(p), 0, FALSE))
    ELSE div_odd(SignProduct(a.s, b.s), Odd(a), Odd(b), p)

\* the sum of the signed integers ra.i * 2^ra.x and rb.i * 2^rb.x
add_odd(a, b, ra, rb, p) ==
    LET lo == IF is_zero(a) THEN rb.x ELSE IF is_zero(b) \/ ra.x < rb.x THEN ra.x ELSE rb.x
        va == IF is_zero(a) THEN 0
              ELSE (IF a.s = "Pos" THEN 1 ELSE -1) * ra.i * 2 ^ (ra.x - lo)
        vb == IF is_zero(b) THEN 0
              ELSE (IF b.s = "Pos" THEN 1 ELSE -1) * rb.i * 2 ^ (rb.x - lo)
        sum == va + vb
    IN  make_number(IF sum < 0 THEN "Neg" ELSE "Pos", Abs(sum), lo, p, FALSE)

add(a, b, p) == add_odd(a, b, Odd(a), Odd(b), p)

\* the integer part as a machine word, and the fractional part
int_as_word_odd(x, r) ==
    IF is_zero(x) \/ x.e <= 0 THEN 0
    ELSE IF r.x >= 0 THEN r.i * 2 ^ r.x
    ELSE r.i \div (2 ^ (-r.x))

int_as_word(x) == int_as_word_odd(x, Odd(x))

fract_odd(x, r) ==
    IF is_zero(x) \/ r.x >= 0
    THEN Ok(Number(x.s, 0, new_words(max_bit_len(x.m)), 0, FALSE))
    ELSE IF x.e <= 0
    THEN Ok(x)
    ELSE make_number(x.s, r.i % (2 ^ (-r.x)), r.x, max_bit_len(x.m), FALSE)

fract(x) == fract_odd(x, Odd(x))

\* round(0, rm) of a value in [0, 1): whether it rounds to one, by the
\* rounding table with G the half bit, R the bits below it, L = 0
round_table(mode, G, R, positive) ==
        CASE mode = "Up" -> ((G \/ R) /\ positive) \/ ((G /\ R) /\ ~positive)
          [] mode = "Down" -> ((G /\ R) /\ positive) \/ ((G \/ R) /\ ~positive)
          [] mode = "FromZero" -> G \/ R
          [] mode = "ToZero" -> G /\ R
          [] mode = "ToEven" -> G /\ R
          [] mode = "ToOdd" -> (G /\ R) \/ (G /\ ~R)
          [] OTHER -> FALSE

round_to_integer_is_one(x, mode) ==
    round_table(mode,
                ~is_zero(x) /\ TopExponent(x) = 0,
                ~is_zero(x) /\ (TopExponent(x) < 0 \/ Odd(x).i # 1),
                x.s = "Pos")

(***************************************************************************)
(* powi (ops/pow.rs lines 72-114): square and multiply over the bits of i, *)
(* a usize, which is as wide as a word.                                    *)
(***************************************************************************)
RECURSIVE powi_scan(_, _)
powi_scan(i, bit_pos) ==
    IF bit_pos = 0
    THEN [i |-> i, bit_pos |-> 0]
    ELSE IF Shl(i, 1) \div DIGIT_SIGNIFICANT_BIT # 0
    THEN [i |-> Shl(i, 2), bit_pos |-> bit_pos - 2]
    ELSE powi_scan(Shl(i, 1), bit_pos - 1)

\* one round of the loop after the squaring sq: multiply by the base when
\* the top bit of i is set
powi_step(base, sq, i) ==
    IF sq.ok /\ i \div DIGIT_SIGNIFICANT_BIT # 0
    THEN mul(sq.v, base, max_bit_len(sq.v.m))
    ELSE sq

RECURSIVE powi_loop(_, _, _, _)
powi_loop(base, acc, i, bit_pos) ==
    IF bit_pos = 0 \/ ~acc.ok
    THEN acc
    ELSE powi_loop(base, powi_step(base, mul(acc.v, acc.v, max_bit_len(acc.v.m)), i),
                   Shl(i, 1), bit_pos - 1)

\* lines 93-112: after the scan, the loop from base widened by bit_pos bits
\* and the final set_precision
powi_result(acc, p, mode) == IF ~acc.ok THEN acc ELSE set_precision(acc.v, p, mode)

powi_scanned(base, scan, p, mode) ==
    powi_result(powi_loop(base, set_precision(base, round_p(p) + scan.bit_pos, "None"),
                          scan.i, scan.bit_pos),
                p, mode)

powi(base, i, p, mode) ==
    IF is_zero(base) \/ i = 1
    THEN set_precision(base, p, mode)
    ELSE IF i = 0
    THEN from_word(1, p)
    ELSE powi_scanned(base, powi_scan(i % DIGIT_BASE, WORD_BIT_SIZE), p, mode)

(***************************************************************************)
(* conv_mantissa (lines 444-520) and conv_to_dec (lines 336-380).          *)
(***************************************************************************)
word_for_radix(rdx) ==
    CASE rdx = "Bin" -> 2 [] rdx = "Oct" -> 8 [] rdx = "Dec" -> 10 [] rdx = "Hex" -> 16

number_for_radix(rdx) == from_word(word_for_radix(rdx), 1).v

\* x as u64 * c / 10^9 with c = c_hi * 1000 + c_lo
scale_by_1e9(x, c_hi, c_lo) == (x * c_hi + (x * c_lo) \div 1000) \div 1000000

\* one digit step: d = r * rdx, then r = d.fract(), word = d.int_as_word()
mantissa_split(r, d) ==
    IF d.ok
    THEN [ok |-> TRUE, r |-> fract(d.v).v, word |-> int_as_word(d.v)]
    ELSE [ok |-> FALSE, r |-> r, word |-> 0]

mantissa_step(r, rdx_num) == mantissa_split(r, mul(r, rdx_num, max_bit_len(r.m)))

RECURSIVE mantissa_loop(_, _, _, _)
mantissa_loop(st, rdx_num, digits, count) ==
    IF count = 0 \/ ~st.ok
    THEN [st |-> st, ret |-> digits]
    ELSE mantissa_loop(mantissa_step(st.r, rdx_num), rdx_num,
                       Append(digits, st.word % 256), count - 1)

\* variant: the carry is not propagated across nines
carry_index_NoCarry(digits, i, rdx_word) == i

\* lines 501-505: the index the carry stops at
RECURSIVE carry_index(_, _, _)
carry_index(digits, i, rdx_word) ==
    IF i > 0 /\ digits[i + 1] + 1 = rdx_word
    THEN carry_index(digits, i - 1, rdx_word)
    ELSE i

RECURSIVE TrailingZeroDigits(_, _)
TrailingZeroDigits(digits, i) ==
    IF i >= 1 /\ digits[i] = 0 THEN 1 + TrailingZeroDigits(digits, i - 1) ELSE 0

strip_zeroes(digits) ==
    [j \in 1 .. (Len(digits) - TrailingZeroDigits(digits, Len(digits))) |-> digits[j]]

\* lines 459-493: the digits pushed before the final rounding, the last
\* extracted word and the remaining fraction r
mantissa_state(lp, e_shift) ==
    [ok |-> lp.st.ok, ret |-> lp.ret, r |-> lp.st.r, word |-> lp.st.word,
     e_shift |-> e_shift]

\* lines 471-493 after the first step s1: a second step when the first word
\* is zero or not a digit, then the loop of l digits
mantissa_rest(s1, rdx_num, rdx_word, l) ==
    LET again == s1.ok /\ (s1.word = 0 \/ s1.word >= rdx_word)
        head == IF s1.word # 0 /\ s1.word >= rdx_word
                THEN <<(s1.word \div rdx_word) % 256, (s1.word % rdx_word) % 256>>
                ELSE <<>>
    IN  mantissa_state(
            mantissa_loop(IF again THEN mantissa_step(s1.r, rdx_num) ELSE s1,
                          rdx_num, head, l),
            IF s1.word = 0 THEN -1 ELSE IF s1.word >= rdx_word THEN 1 ELSE 0)

mantissa_first(r0, rdx_num, rdx_word, l) ==
    mantissa_rest(mantissa_step(r0, rdx_num), rdx_num, rdx_word, l)

mantissa_digits(x, l, rdx) ==
    mantissa_first(set_precision(set_sign(x, "Pos"), max_bit_len(x.m) + 4, "None").v,
                   number_for_radix(rdx), word_for_radix(rdx), l)

\* lines 495-512: the final rounding and the carry across nines
mantissa_carry(st, rdx_word, up) ==
    LET word == IF up THEN st.word + 1 ELSE st.word
        pushed == Append(st.ret, IF word = rdx_word THEN 0 ELSE word % 256)
        stop == carry_index(pushed, Len(pushed) - 2, rdx_word)
    IN  IF up /\ word = rdx_word
        THEN [j \in 1 .. Len(pushed) |->
                 IF j - 1 = stop THEN pushed[j] + 1
                 ELSE IF j - 1 > stop /\ j - 1 <= Len(pushed) - 2 THEN 0
                 ELSE pushed[j]]
        ELSE pushed

mantissa_round(st, rdx, mode) ==
    mantissa_carry(st, word_for_radix(rdx), round_to_integer_is_one(st.r, mode))

\* lines 495-519 on the state st the digit loop left
conv_mantissa_rounded(st, rdx, mode) ==
    IF ~st.ok
    THEN [ok |-> FALSE, digits |-> <<>>, e_shift |-> 0]
    ELSE [ok |-> TRUE, digits |-> strip_zeroes(mantissa_round(st, rdx, mode)),
          e_shift |-> st.e_shift]

conv_mantissa(x, l, rdx, mode) ==
    IF is_zero(x)
    THEN [ok |-> TRUE, digits |-> strip_zeroes(<<0>>), e_shift |-> 0]
    ELSE conv_mantissa_rounded(mantissa_digits(x, l, rdx), rdx, mode)

\* lines 342-372 of conv_to_dec: the digit count l, the decimal exponent n
\* and the value scaled by 10^n into the range of conv_mantissa
dec_digit_count(x) == scale_by_1e9(max_bit_len(x.m), 301029, 996) + 1

dec_exponent(x) == scale_by_1e9(Abs(x.e), 301029, 996)

\* lines 351-362: the extra factor rdx when n >= 646456993
dec_scaled_again(x, rdx, big, f1) ==
    IF big /\ f1.ok
    THEN (IF x.e < 0
          THEN mul(f1.v, rdx, max_bit_len(x.m))
          ELSE div(f1.v, rdx, max_bit_len(x.m)))
    ELSE f1

\* lines 357-370: x times or over d = rdx^n
dec_scaled_by(x, rdx, big, d) ==
    IF ~d.ok THEN d
    ELSE dec_scaled_again(x, rdx, big,
                          IF x.e < 0
                          THEN mul(x, d.v, max_bit_len(x.m))
                          ELSE div(x, d.v, max_bit_len(x.m)))

dec_scaled_with(x, rdx, n, big) ==
    dec_scaled_by(x, rdx, big,
                  powi(rdx, IF big THEN n - 1 ELSE n, max_bit_len(x.m) + WORD_BIT_SIZE,
                       "None"))

dec_scaled(x) ==
    IF dec_exponent(x) = 0
    THEN Ok(x)
    ELSE dec_scaled_with(x, number_for_radix("Dec"), dec_exponent(x),
                         dec_exponent(x) >= 646456993)

\* lines 377-379: the sign, the digits and the exponent n * signum + e_shift
\* variant: the exponent shift of conv_mantissa is left out
conv_to_dec_result_NoShift(x, cm) ==
    LET sgn == IF x.e > 0 THEN 1 ELSE IF x.e < 0 THEN -1 ELSE 0
    IN  IF ~cm.ok THEN DigitsErr("ExponentOverflow", "Pos")
        ELSE Ok([s |-> x.s, digits |-> cm.digits, e |-> dec_exponent(x) * sgn])

conv_to_dec_result(x, cm) ==
    LET sgn == IF x.e > 0 THEN 1 ELSE IF x.e < 0 THEN -1 ELSE 0
    IN  IF ~cm.ok THEN DigitsErr("ExponentOverflow", "Pos")
        ELSE Ok([s |-> x.s, digits |-> cm.digits,
                 e |-> dec_exponent(x) * sgn + cm.e_shift])

conv_to_dec_scaled(x, mode, f) ==
    IF ~f.ok THEN DigitsErr(f.err, f.errsign)
    ELSE conv_to_dec_result(x, conv_mantissa(f.v, dec_digit_count(x), "Dec", mode))

conv_to_dec(x, mode) == conv_to_dec_scaled(x, mode, dec_scaled(x))

convert_to_radix(x, rdx, mode) ==
    CASE rdx = "Bin" -> conv_to_binary(x)
      [] rdx = "Oct" -> conv_to_commensurable(x, 3)
      [] rdx = "Dec" -> conv_to_dec(x, mode)
      [] rdx = "Hex" -> conv_to_commensurable(x, 4)

(***************************************************************************)
(* conv_from_num_dec (lines 224-312).  The digit loop keeps the number f,  *)
(* the group value word and the group length i; a full group of nine       *)
(* digits is folded into f inside the loop, a partial one after it.        *)
(***************************************************************************)
RECURSIVE LeadingZeroDigits(_, _)
LeadingZeroDigits(digits, i) ==
    IF i <= Len(digits) /\ digits[i] = 0 THEN 1 + LeadingZeroDigits(digits, i + 1) ELSE 0

\* f = f * ten_pow + word, both steps at precision pf; from_word, mul and
\* add are followed by ?, so the first error is the result
fold_add_word(scaled, d2, pf) ==
    IF ~d2.ok THEN d2
    ELSE IF ~scaled.ok THEN scaled
    ELSE add(scaled.v, d2.v, pf)

fold_add(scaled, word, pf) == fold_add_word(scaled, from_word(word, 1), pf)

fold_scaled(f, ten_pow, word, pf) ==
    IF ~ten_pow.ok THEN ten_pow ELSE fold_add(mul(f, ten_pow.v, pf), word, pf)

fold_group(f, ten_pow, word, pf) == fold_scaled(f, from_word(ten_pow, 1), word, pf)

RECURSIVE from_dec_loop(_, _, _, _, _, _)
from_dec_loop(digits, j, f, word, i, pf) ==
    IF j > Len(digits) \/ ~f.ok
    THEN [invalid |-> FALSE, f |-> f, word |-> word, i |-> i]
    ELSE IF digits[j] > 9
    THEN [invalid |-> TRUE, f |-> f, word |-> word, i |-> i]
    ELSE IF i + 1 = 9
    THEN from_dec_loop(digits, j + 1, fold_group(f.v, 10 ^ 9, word * 10 + digits[j], pf),
                       0, 0, pf)
    ELSE from_dec_loop(digits, j + 1, f, word * 10 + digits[j], i + 1, pf)

\* lines 288-295: scale by 10^nmax while more than nmax decimal places remain
RECURSIVE from_dec_scale(_, _, _, _, _, _)
from_dec_scale(f, fpnmax, nabs, nmax, negative, pf) ==
    IF nabs <= nmax \/ ~f.ok
    THEN [f |-> f, nabs |-> nabs]
    ELSE from_dec_scale(IF negative THEN div(f.v, fpnmax, pf) ELSE mul(f.v, fpnmax, pf),
                        fpnmax, nabs - nmax, nmax, negative, pf)

\* lines 308-309: the sign and the final rounding to p bits
from_dec_result(sign, p, mode, f2) ==
    IF ~f2.ok THEN f2 ELSE set_precision(set_sign(f2.v, sign), p, mode)

\* lines 299-306: the last scaling, by fpn = 10^nabs
from_dec_scaled(sign, n, p, pf, mode, sc, fpn) ==
    IF ~fpn.ok THEN fpn
    ELSE from_dec_result(sign, p, mode,
                         IF n < 0 THEN div(sc.f.v, fpn.v, pf) ELSE mul(sc.f.v, fpn.v, pf))

\* lines 297-306 on the number and the decimal places sc the scaling loop left
from_dec_near(sign, n, p, pf, mode, sc) ==
    IF ~sc.f.ok THEN sc.f
    ELSE IF sc.nabs > 0
    THEN from_dec_scaled(sign, n, p, pf, mode, sc,
                         powi(from_word(10, 4).v, sc.nabs,
                              (IF pf > p THEN pf ELSE p) + WORD_BIT_SIZE, "None"))
    ELSE from_dec_result(sign, p, mode, sc.f)

\* lines 286-296: the scaling loop with fpnmax = 10^nmax
from_dec_far(sign, n, p, pf, mode, f1, nmax, fpnmax) ==
    IF ~fpnmax.ok THEN fpnmax
    ELSE from_dec_near(sign, n, p, pf, mode,
                       from_dec_scale(f1, fpnmax.v, Abs(n), nmax, n < 0, pf))

\* lines 278-296 on the number f1 the digits gave; n is e - digits.len()
from_dec_folded(sign, n, p, pf, mode, f1, nmax) ==
    IF ~f1.ok THEN f1
    ELSE IF Abs(n) > nmax
    THEN from_dec_far(sign, n, p, pf, mode, f1, nmax,
                      powi(from_word(10, 4).v, nmax, pf, "None"))
    ELSE from_dec_near(sign, n, p, pf, mode, [f |-> f1, nabs |-> Abs(n)])

\* lines 264-276: the partial last group
from_dec_read(sign, n, p, pf, mode, lp) ==
    IF lp.invalid THEN NumErr("InvalidArgument", sign)
    ELSE from_dec_folded(sign, n, p, pf, mode,
                         IF lp.i > 0 /\ lp.f.ok
                         THEN fold_group(lp.f.v, 10 ^ lp.i, lp.word, pf)
                         ELSE lp.f,
                         scale_by_1e9(EXPONENT_MAX, 301029, 995))

conv_from_num_dec(sign, digits, e, p, mode) ==
    LET leadzeroes == LeadingZeroDigits(digits, 1)
        est == scale_by_1e9(Len(digits) - leadzeroes, 3321928, 95)
        pf == round_p((IF est > p THEN est ELSE p) + WORD_BIT_SIZE)
    IN  from_dec_read(sign, e - Len(digits), p, pf, mode,
                      from_dec_loop(digits, leadzeroes + 1, Ok(new_number(pf)), 0, 0, pf))

(***************************************************************************)
(* convert_from_radix (lines 39-64).  p_assertion rejects only precisions  *)
(* far beyond those of the model.                                          *)
(***************************************************************************)
p_assertion(p) == TRUE

\* variant: the exponent range is checked before the precision
convert_from_radix_RangeFirst(sign, digits, e, rdx, p0, mode) ==
    LET p == round_p(p0)
    IN  IF ~p_assertion(p) THEN NumErr("InvalidArgument", sign)
        ELSE IF e < EXPONENT_MIN \/ e > EXPONENT_MAX THEN NumErr("InvalidArgument", sign)
        ELSE IF p = 0 THEN Ok(new_number(0))
        ELSE CASE rdx = "Bin" -> conv_from_binary(sign, digits, e, p, mode)
               [] rdx = "Oct" -> conv_from_commensurable(sign, digits, e, 3, p, mode)
               [] rdx = "Dec" -> conv_from_num_dec(sign, digits, e, p, mode)
               [] rdx = "Hex" -> conv_from_commensurable(sign, digits, e, 4, p, mode)

convert_from_radix(sign, digits, e, rdx, p0, mode) ==
    LET p == round_p(p0)
    IN  IF ~p_assertion(p) THEN NumErr("InvalidArgument", sign)
        ELSE IF p = 0 THEN Ok(new_number(0))
        ELSE IF e < EXPONENT_MIN \/ e > EXPONENT_MAX THEN NumErr("InvalidArgument", sign)
        ELSE CASE rdx = "Bin" -> conv_from_binary(sign, digits, e, p, mode)
               [] rdx = "Oct" -> conv_from_commensurable(sign, digits, e, 3, p, mode)
               [] rdx = "Dec" -> conv_from_num_dec(sign, digits, e, p, mode)
               [] rdx = "Hex" -> conv_from_commensurable(sign, digits, e, 4, p, mode)

(***************************************************************************)
(* The rounding kernel as a state machine: a caller holds a buffer and     *)
(* calls round_mantissa once.                                              *)
(***************************************************************************)
Buffers == UNION {[1 .. len -> Digits] : len \in 1 .. MaxWords}

NoRet == [ret |-> FALSE, panic |-> FALSE, c |-> FALSE]

NoResult == [op |-> "none"]

InitRound ==
    /\ pc = "round_call"
    /\ mant \in Buffers
    /\ old = mant
    /\ k \in 1 .. max_bit_len(mant)
    /\ rm \in RoundingModes
    /\ is_positive \in BOOLEAN
    /\ ret = NoRet
    /\ self = NoNumber
    /\ radix = "Bin"
    /\ out = Ok(NoDigits)
    /\ inp = NoDigits
    /\ prec = 0
    /\ res = Ok(NoNumber)
    /\ other = <<0>>
    /\ m2_shift = 0
    /\ result = NoResult

RoundMantissa ==
    /\ pc = "round_call"
    /\ LET r == round_mantissa(mant, k, rm, is_positive)
       IN  /\ mant' = r.m
           /\ ret' = [ret |-> r.ret, panic |-> r.panic, c |-> r.c]
    /\ pc' = "round_done"
    /\ UNCHANGED <<old, k, rm, is_positive, self, radix, out, inp, prec, res, other, m2_shift, result>>

NextRound == RoundMantissa

SpecRound == InitRound /\ [][NextRound]_vars

(***************************************************************************)
(* Reference quantities of a rounding call, read off the integer the old   *)
(* buffer stores: the guard bit G (bit k-1), the sticky R (OR of the bits  *)
(* below it), the last retained bit L (bit k) and the retained prefix.     *)
(***************************************************************************)
OldValue == WordsValue(old)

NewValue == WordsValue(mant)

TotalBits == max_bit_len(old)

GuardBit == (OldValue \div (2 ^ (k - 1))) % 2 = 1

StickyBits == OldValue % (2 ^ (k - 1)) # 0

LastBit == (OldValue \div (2 ^ k)) % 2 = 1

Prefix == OldValue \div (2 ^ k)

Inc == IF ret.c THEN 1 ELSE 0

RoundDone == pc = "round_done"

\* C7: after round_mantissa(k, mode, is_positive) with k in [1, N*W] the call
\* has returned, the low k bits are zero, the flag is true iff the increment
\* carried out of bit N*W-1 and then the buffer is 2^(N*W-1); otherwise the
\* flag is false and the buffer is (old prefix + increment) * 2^k.
C7_RoundResult ==
    RoundDone =>
        /\ ~ret.panic
        /\ NewValue % (2 ^ k) = 0
        /\ ret.ret = ((Prefix + Inc) * (2 ^ k) >= 2 ^ TotalBits)
        /\ ret.ret => NewValue = 2 ^ (TotalBits - 1)
        /\ ~ret.ret => NewValue = (Prefix + Inc) * (2 ^ k)

\* The part of C7 that the code keeps: whenever the call returns, the buffer
\* and the flag are as the contract says.
C7_RoundResultWhenReturned ==
    (RoundDone /\ ~ret.panic) =>
        /\ NewValue % (2 ^ k) = 0
        /\ ret.ret = ((Prefix + Inc) * (2 ^ k) >= 2 ^ TotalBits)
        /\ ret.ret => NewValue = 2 ^ (TotalBits - 1)
        /\ ~ret.ret => NewValue = (Prefix + Inc) * (2 ^ k)

\* The calls that panic are exactly those with k = N*W and an increment.
C7_PanicExactly ==
    RoundDone => (ret.panic <=> (k = TotalBits /\ ret.c))

AwayCase ==
    \/ rm = "FromZero"
    \/ rm = "Up" /\ is_positive
    \/ rm = "Down" /\ ~is_positive

TowardCase ==
    \/ rm = "ToZero"
    \/ rm = "Up" /\ ~is_positive
    \/ rm = "Down" /\ is_positive

\* C9: round_mantissa increments the retained prefix iff (G and R) for ToZero,
\* Up with a negative sign and Down with a positive sign; iff (G and R) or
\* (G and not R and L) for ToEven; iff (G and R) or (G and not R and not L)
\* for ToOdd; when the call returns the buffer holds the prefix so incremented.
C9_NearestDecisions ==
    RoundDone =>
        /\ TowardCase => (ret.c <=> (GuardBit /\ StickyBits))
        /\ rm = "ToEven" =>
              (ret.c <=> ((GuardBit /\ StickyBits) \/ (GuardBit /\ ~StickyBits /\ LastBit)))
        /\ rm = "ToOdd" =>
              (ret.c <=> ((GuardBit /\ StickyBits) \/ (GuardBit /\ ~StickyBits /\ ~LastBit)))
        /\ ((TowardCase \/ rm \in {"ToEven", "ToOdd"}) /\ ~ret.panic) =>
              (IF ret.ret THEN 2 ^ TotalBits ELSE NewValue) = (Prefix + Inc) * (2 ^ k)

C9_Witness ==
    /\ RoundDone /\ rm = "ToEven"
    /\ GuardBit /\ ~StickyBits /\ LastBit /\ ret.c /\ ~ret.panic
    /\ Len(old) = 2 /\ k = DIGIT_BIT_SIZE

Outcome == [m |-> mant, ret |-> ret.ret, panic |-> ret.panic, c |-> ret.c]

\* C10: for every buffer and every k, round_mantissa gives the same buffer and
\* the same return value under Up and FromZero, and under Down and ToZero,
\* when is_positive; and the same under Up and ToZero, and under Down and
\* FromZero, when not is_positive.
C10_ModeSymmetry ==
    RoundDone =>
        /\ (rm = "Up" /\ is_positive) =>
              Outcome = round_mantissa(old, k, "FromZero", is_positive)
        /\ (rm = "Down" /\ is_positive) =>
              Outcome = round_mantissa(old, k, "ToZero", is_positive)
        /\ (rm = "Up" /\ ~is_positive) =>
              Outcome = round_mantissa(old, k, "ToZero", is_positive)
        /\ (rm = "Down" /\ ~is_positive) =>
              Outcome = round_mantissa(old, k, "FromZero", is_positive)

C10_Witness ==
    /\ RoundDone /\ rm = "Up" /\ ~is_positive
    /\ GuardBit /\ StickyBits /\ ret.c /\ ret.ret /\ ~ret.panic
    /\ Len(old) = 2

\* the signed values before and after the call; a returned carry counts as
\* 2^(N*W)
SignedOld == IF is_positive THEN OldValue ELSE -OldValue

SignedNew ==
    LET magnitude == IF ret.ret THEN 2 ^ TotalBits ELSE NewValue
    IN  IF is_positive THEN magnitude ELSE -magnitude

\* C11: whenever round_mantissa returns, under Up the signed value is not
\* below the original signed value and under Down it is not above it, for
\* every k and every bit pattern.
C11_DirectedRounding ==
    (RoundDone /\ ~ret.panic) =>
        /\ rm = "Up" => SignedNew >= SignedOld
        /\ rm = "Down" => SignedNew <= SignedOld

\* What the code does instead: Up and Down round to the nearest value and
\* only break ties in their direction, so Up falls below the original, and
\* Down rises above it, exactly in these cases.
C11_DirectedOnlyOnTies ==
    (RoundDone /\ ~ret.panic) =>
        /\ rm = "Up" =>
              (SignedNew < SignedOld <=>
                  \/ is_positive /\ ~GuardBit /\ StickyBits
                  \/ ~is_positive /\ GuardBit /\ StickyBits)
        /\ rm = "Down" =>
              (SignedNew > SignedOld <=>
                  \/ ~is_positive /\ ~GuardBit /\ StickyBits
                  \/ is_positive /\ GuardBit /\ StickyBits)

\* C12: for every buffer, every k in [1, N*W], every mode and sign,
\* round_mantissa completes without indexing or slicing outside the buffer.
C12_NoPanic == RoundDone => ~ret.panic

(***************************************************************************)
(* The conversions as a state machine.  A run either takes a finite value  *)
(* x, converts it to digits (ConvertToRadix) and reads the digits back     *)
(* under ToEven (ConvertBack), or takes raw digits, valid or not, and      *)
(* parses them (ConvertFromRadix).                                         *)
(***************************************************************************)
MaxDigits == 3

RawDigits == {0, 1, 7, 9, 15, 16}

RawExponents == {EXPONENT_MIN - 1, EXPONENT_MIN, -1, 0, 1, EXPONENT_MAX, EXPONENT_MAX + 1}

Precisions == {p \in 1 .. (MaxWords + 1) * WORD_BIT_SIZE : p % WORD_BIT_SIZE = 0}

RawPrecisions == {0, WORD_BIT_SIZE - 1, 2 * WORD_BIT_SIZE}

\* the finite values of up to MaxWords words: zero, the subnormal numbers
\* (top bit clear, exponent EXPONENT_MIN) and the normal numbers
ValueOf(s, e, m) == Number(s, IF WordsValue(m) = 0 THEN 0 ELSE e, m, find_bit_len(m), FALSE)

FiniteValues ==
    {ValueOf(s, e, m) : s \in Signs, e \in EXPONENT_MIN .. EXPONENT_MAX,
                        m \in {b \in Buffers : b[Len(b)] >= DIGIT_SIGNIFICANT_BIT}}
    \cup {ValueOf(s, EXPONENT_MIN, m) : s \in Signs,
                        m \in {b \in Buffers : b[Len(b)] < DIGIT_SIGNIFICANT_BIT}}

RawInputs ==
    {[s |-> s, digits |-> d, e |-> e] :
        s \in Signs,
        d \in UNION {[1 .. len -> RawDigits] : len \in 0 .. MaxDigits},
        e \in RawExponents}

InitConv ==
    /\ mant = <<0>>
    /\ old = <<0>>
    /\ k = 1
    /\ is_positive = TRUE
    /\ ret = NoRet
    /\ rm = "ToEven"
    /\ out = Ok(NoDigits)
    /\ prec = 0
    /\ res = Ok(NoNumber)
    /\ other = <<0>>
    /\ m2_shift = 0
    /\ result = NoResult
    /\ \/ pc = "value" /\ self \in FiniteValues /\ inp = NoDigits /\ radix = "Bin"
       \/ pc = "raw" /\ self = NoNumber /\ inp \in RawInputs /\ radix \in Radixes

ConvertToRadix ==
    /\ pc = "value"
    /\ \E r \in Radixes, mode \in RoundingModes :
          /\ r # "Dec" => mode = "ToEven"
          /\ radix' = r
          /\ rm' = mode
          /\ out' = convert_to_radix(self, r, mode)
    /\ pc' = "digits"
    /\ UNCHANGED <<mant, old, k, is_positive, ret, self, inp, prec, res, other, m2_shift, result>>

ConvertBack ==
    /\ pc = "digits"
    /\ out.ok
    /\ rm = "ToEven"
    /\ \E p \in Precisions :
          /\ prec' = p
          /\ res' = convert_from_radix(out.v.s, out.v.digits, out.v.e, radix, p, "ToEven")
    /\ inp' = out.v
    /\ pc' = "back"
    /\ UNCHANGED <<mant, old, k, rm, is_positive, ret, self, radix, out, other, m2_shift, result>>

ConvertFromRadix ==
    /\ pc = "raw"
    /\ \E p \in RawPrecisions, mode \in RoundingModes :
          /\ prec' = p
          /\ rm' = mode
          /\ res' = convert_from_radix(inp.s, inp.digits, inp.e, radix, p, mode)
    /\ pc' = "parsed"
    /\ UNCHANGED <<mant, old, k, is_positive, ret, self, radix, out, inp, other, m2_shift, result>>

NextConv == ConvertToRadix \/ ConvertBack \/ ConvertFromRadix

SpecConv == InitConv /\ [][NextConv]_vars

(***************************************************************************)
(* Properties of the conversions.                                          *)
(***************************************************************************)
IsValue(v) == ~is_zero(v)

RoundTripCase == pc = "back" /\ radix # "Dec" /\ IsValue(self)

\* self rounded to the precision of the read-back
Rounded == set_precision(self, prec, "ToEven")

\* C1: for a finite non-zero value x of precision p1 (normal or subnormal),
\* a radix in {Bin, Oct, Hex} and digits produced by convert_to_radix under
\* ToEven, convert_from_radix at precision p2 under ToEven succeeds and
\* compares equal to x when p2 >= p1; when p2 < p1 it agrees with x rounded
\* to p2 under ToEven: equal to it, or the same error when that rounding
\* overflows the exponent.
C1_RoundTrip ==
    RoundTripCase =>
        IF prec >= max_bit_len(self.m)
        THEN res.ok /\ cmp(res.v, self) = 0
        ELSE IF Rounded.ok
        THEN res.ok /\ cmp(res.v, Rounded.v) = 0
        ELSE ~res.ok /\ res.err = Rounded.err /\ res.errsign = Rounded.errsign

\* a subnormal value read back from octal digits at a smaller precision,
\* where the rounding changed the value
C1_Witness ==
    /\ RoundTripCase
    /\ radix = "Oct"
    /\ self.n < max_bit_len(self.m)
    /\ prec < max_bit_len(self.m)
    /\ res.ok
    /\ cmp(res.v, self) # 0
    /\ cmp(res.v, Rounded.v) = 0

ParsedCase == pc = "parsed" /\ inp.e >= EXPONENT_MIN /\ inp.e <= EXPONENT_MAX /\ prec > 0

HasInvalidDigit == \E j \in 1 .. Len(inp.digits) : inp.digits[j] >= word_for_radix(radix)

\* C2: for every radix, sign, exponent in [EXPONENT_MIN, EXPONENT_MAX],
\* precision p > 0 and rounding mode, digits containing a digit >= radix
\* make convert_from_radix return Err(InvalidArgument).
C2_InvalidDigitRejected ==
    ParsedCase /\ HasInvalidDigit => ~res.ok /\ res.err = "InvalidArgument"

\* An invalid digit is always refused, with InvalidArgument or, in Oct and
\* Hex, with the ExponentOverflow that conv_from_commensurable returns before
\* its fill loop has validated the digits after the first non-zero one.
C2_InvalidDigitIsAnError ==
    ParsedCase /\ HasInvalidDigit =>
        /\ ~res.ok
        /\ res.err \in {"InvalidArgument", "ExponentOverflow"}
        /\ res.err = "ExponentOverflow" => radix \in {"Oct", "Hex"}

AllZeroDigits == \A j \in 1 .. Len(inp.digits) : inp.digits[j] = 0

\* C3: for every radix, exponent in range and precision p > 0, an empty
\* digit sequence or one of zero digits only gives Ok with a zero value.
C3_ZeroDigitsGiveZero ==
    ParsedCase /\ AllZeroDigits => res.ok /\ is_zero(res.v)

\* zero digits of the greatest length, in decimal, at the least exponent
C3_Witness ==
    /\ ParsedCase
    /\ AllZeroDigits
    /\ Len(inp.digits) = MaxDigits
    /\ radix = "Dec"
    /\ inp.e = EXPONENT_MIN
    /\ res.ok
    /\ is_zero(res.v)

\* C4: with precision p = 0 convert_from_radix returns Ok(zero) whatever the
\* sign, digits, exponent, radix and rounding mode: the exponent is not
\* range-checked and no digit is validated.
C4_ZeroPrecisionGivesZero ==
    pc = "parsed" /\ prec = 0 => res.ok /\ is_zero(res.v)

\* p = 0 with an exponent out of range and an invalid digit
C4_Witness ==
    /\ pc = "parsed"
    /\ prec = 0
    /\ inp.e > EXPONENT_MAX
    /\ HasInvalidDigit
    /\ res.ok
    /\ is_zero(res.v)

\* C5: for every finite value (zero, subnormal or normal), radix and
\* rounding mode, the digits of convert_to_radix are the single digit 0 or
\* start with a non-zero digit.
C5_LeadingDigitNonZero ==
    pc = "digits" /\ out.ok =>
        \/ out.v.digits = <<0>>
        \/ Len(out.v.digits) >= 1 /\ out.v.digits[1] # 0

IsNormal(v) == v.n = Len(v.m) * WORD_BIT_SIZE

\* For a normal value (top bit of the significand set) the first digit
\* convert_to_radix returns is non-zero, in every radix and mode.
C5_NormalLeadingDigitNonZero ==
    pc = "digits" /\ out.ok /\ IsNormal(self) =>
        Len(out.v.digits) >= 1 /\ out.v.digits[1] # 0

\* C6: every digit convert_to_radix returns lies in [0, radix), also after
\* the final round-up of the decimal output carried across nines.
C6_DigitsInRange ==
    pc = "digits" /\ out.ok =>
        \A j \in 1 .. Len(out.v.digits) :
            out.v.digits[j] >= 0 /\ out.v.digits[j] < word_for_radix(radix)

\* a decimal output whose round-up made the last digit ten and carried
\* across a nine
C6_Witness ==
    /\ pc = "digits"
    /\ radix = "Dec"
    /\ out.ok
    /\ IsValue(self)
    /\ LET st == mantissa_digits(dec_scaled(self).v, dec_digit_count(self), "Dec")
       IN  /\ round_to_integer_is_one(st.r, rm)
           /\ st.word + 1 = 10
           /\ st.ret[Len(st.ret)] = 9

(***************************************************************************)
(* ops/pow.rs: pow.  The cases of a negative and of a zero base return     *)
(* before the logarithm is taken; the remaining path (set_precision, ln,   *)
(* mul, exp, set_precision) is outside the model and yields one of its     *)
(* possible outcomes.                                                      *)
(***************************************************************************)
is_negative(x) == x.s = "Neg"

\* variant: the zero base is recognised before the sign is looked at
pow_ZeroFirst(base, n, p) ==
    IF is_zero(base)
    THEN [early |-> TRUE,
          r |-> IF is_negative(n) THEN NumErr("ExponentOverflow", "Pos")
                ELSE IF is_zero(n) THEN from_word(1, p)
                ELSE Ok(new_number(p))]
    ELSE IF is_negative(base)
    THEN [early |-> TRUE, r |-> NumErr("InvalidArgument", "Pos")]
    ELSE [early |-> FALSE, r |-> Ok(NoNumber)]

\* early: the call returned at lines 145-157, before ln and exp
pow(base, n, p) ==
    IF is_negative(base)
    THEN [early |-> TRUE, r |-> NumErr("InvalidArgument", "Pos")]
    ELSE IF is_zero(base)
    THEN [early |-> TRUE,
          r |-> IF is_negative(n) THEN NumErr("ExponentOverflow", "Pos")
                ELSE IF is_zero(n) THEN from_word(1, p)
                ELSE Ok(new_number(p))]
    ELSE [early |-> FALSE, r |-> Ok(NoNumber)]

\* what lines 159-173 can return: a value of precision p or an error of
\* set_precision, ln, mul or exp
pow_evaluated(p) ==
    {Ok(new_number(p)), from_word(1, p),
     NumErr("ExponentOverflow", "Pos"), NumErr("ExponentOverflow", "Neg"),
     NumErr("MemoryAllocation", "Pos")}

(***************************************************************************)
(* pow as a state machine: a caller holds a base and an exponent and calls *)
(* pow once.                                                               *)
(***************************************************************************)
PowBases == {x \in FiniteValues : x.e \in {EXPONENT_MIN, 0, EXPONENT_MAX}}

PowExponents ==
    {ValueOf(s, e, m) : s \in Signs, e \in {0, 2},
                        m \in {<<0>>, <<DIGIT_SIGNIFICANT_BIT>>, <<DIGIT_MAX>>}}

InitPow ==
    /\ pc = "pow_call"
    /\ mant = <<0>>
    /\ old = <<0>>
    /\ k = 1
    /\ is_positive = TRUE
    /\ ret = NoRet
    /\ rm = "ToEven"
    /\ radix = "Bin"
    /\ out = Ok(NoDigits)
    /\ inp = NoDigits
    /\ prec = 0
    /\ res = Ok(NoNumber)
    /\ self \in PowBases
    /\ other \in PowExponents
    /\ m2_shift = 0
    /\ result = NoResult

PowReturned(e, p, mode, r) ==
    /\ prec' = p
    /\ rm' = mode
    /\ res' = r
    /\ result' = [op |-> "pow", evaluated |-> ~e.early]
    /\ pc' = "pow_done"
    /\ UNCHANGED <<mant, old, k, is_positive, ret, self, radix, out, inp, other, m2_shift>>

PowEarly ==
    /\ pc = "pow_call"
    /\ \E p \in Precisions, mode \in RoundingModes :
          /\ pow(self, other, p).early
          /\ PowReturned(pow(self, other, p), p, mode, pow(self, other, p).r)

PowEvaluated ==
    /\ pc = "pow_call"
    /\ \E p \in Precisions, mode \in RoundingModes :
          /\ ~pow(self, other, p).early
          /\ \E r \in pow_evaluated(round_p(p)) :
                PowReturned(pow(self, other, p), p, mode, r)

NextPow == PowEarly \/ PowEvaluated

SpecPow == InitPow /\ [][NextPow]_vars

PowDone == pc = "pow_done"

C13_WitnessOne ==
    PowDone /\ is_zero(self) /\ is_zero(other) /\ res.ok /\ ~is_zero(res.v)

C13_WitnessEvaluated == PowDone /\ result.evaluated

\* a zero that carries the negative sign is treated as a negative base, and
\* a zero exponent that carries it as a negative exponent
C13_SignedZeroBase ==
    PowDone /\ is_zero(self) /\ is_negative(self) =>
        res = NumErr("InvalidArgument", "Pos")

C13_SignedZeroExponent ==
    PowDone /\ is_zero(self) /\ ~is_negative(self) /\ is_zero(other) /\ is_negative(other) =>
        res = NumErr("ExponentOverflow", "Pos")

(***************************************************************************)
(* The arithmetic kernels of mantissa.rs.  The rounding modes of this      *)
(* file are the six arms of the match at lines 656-681.                    *)
(***************************************************************************)
ArithModes == RoundingModes \ {"None"}

\* Mantissa::shift_left_m, lines 142-172
shift_left_m(m, n0) ==
    LET idx == n0 \div DIGIT_BIT_SIZE
        shift == n0 % DIGIT_BIT_SIZE
        len == Len(m)
    IN  IF idx >= len
        THEN [j \in 1 .. len |-> 0]
        ELSE IF shift > 0
        THEN [j \in 1 .. len |->
                 Shr((IF j - 1 >= idx THEN m[j - idx] * DIGIT_BASE ELSE 0)
                     + (IF j - 1 > idx THEN m[j - idx - 1] ELSE 0),
                     DIGIT_BIT_SIZE - shift) % DIGIT_BASE]
        ELSE IF idx > 0
        THEN [j \in 1 .. len |-> IF j <= idx THEN 0 ELSE m[j - idx]]
        ELSE m

\* Mantissa::maximize, lines 176-197: the shift counted at lines 179-190
maximize_shift(m, top) ==
    IF top = 0 THEN 0
    ELSE (Len(m) - top) * DIGIT_BIT_SIZE + (DIGIT_BIT_SIZE - BitLen(m[top]))

maximize(m) ==
    [m |-> shift_left_m(m, maximize_shift(m, TopWord(m, Len(m)))),
     shift |-> maximize_shift(m, TopWord(m, Len(m)))]

\* DigitBuf::trunc_to(bits): the buffer keeps its most significant words
trunc_to(m, bits) ==
    [j \in 1 .. bits \div DIGIT_BIT_SIZE |-> m[j + Len(m) - bits \div DIGIT_BIT_SIZE]]

\* variant: the words in front are filled with DIGIT_MAX
ExtendedSlice_Ones(m, ext) ==
    [j \in 1 .. Len(m) + ext |-> IF j <= ext THEN DIGIT_MAX ELSE m[j - ext]]

\* ExtendedSlice::new(m.iter(), ext, &0): ext zero words, then the words of m
ExtendedSlice(m, ext) ==
    [j \in 1 .. Len(m) + ext |-> IF j <= ext THEN 0 ELSE m[j - ext]]

\* RightShiftedSlice::new(&m2.m, m2_shift, 0, true), read over l words: m2
\* aligned with the top of the working length and logically shifted right
RightShiftedSlice(m, sh, l) == shift_right(ExtendedSlice(m, l - Len(m)), sh)

(***************************************************************************)
(* Mantissa::abs_cmp, lines 200-219.  crate::defs::DigitSigned is the      *)
(* signed integer of the double word: a word cast to it keeps its value.   *)
(* The subtraction of line 203 is done in that type: overflow is the       *)
(* difference leaving its range (a panic in a build with overflow checks,  *)
(* the wrapped value otherwise).                                           *)
(***************************************************************************)
SIGNED_BIT_SIZE == 2 * DIGIT_BIT_SIZE

\* v as a signed integer of w bits
as_signed(v, w) ==
    IF v % (2 ^ w) >= 2 ^ (w - 1) THEN (v % (2 ^ w)) - 2 ^ w ELSE v % (2 ^ w)

signed_sub(x, y, w) ==
    [diff |-> as_signed(x - y + 2 ^ (w + 1), w),
     overflow |-> x - y >= 2 ^ (w - 1) \/ x - y < -(2 ^ (w - 1))]

\* variant: the signed type has the width of one word
digit_diff_Narrow(a, b) ==
    signed_sub(as_signed(a, DIGIT_BIT_SIZE), as_signed(b, DIGIT_BIT_SIZE), DIGIT_BIT_SIZE)

\* line 203: *a as DigitSigned - *b as DigitSigned
digit_diff(a, b) ==
    signed_sub(as_signed(a, SIGNED_BIT_SIZE), as_signed(b, SIGNED_BIT_SIZE), SIGNED_BIT_SIZE)

\* lines 209-218: the words of the longer operand below the common part
abs_cmp_rest(a, b, len) ==
    IF \E j \in 1 .. Len(a) - len : a[j] # 0 THEN [diff |-> 1, overflow |-> FALSE]
    ELSE IF \E j \in 1 .. Len(b) - len : b[j] # 0 THEN [diff |-> -1, overflow |-> FALSE]
    ELSE [diff |-> 0, overflow |-> FALSE]

RECURSIVE abs_cmp_zip(_, _, _, _)

abs_cmp_word(a, b, i, len, d) ==
    IF d.diff # 0 \/ d.overflow THEN d ELSE abs_cmp_zip(a, b, i + 1, len)

\* lines 202-207: the pairs of words, most significant first
abs_cmp_zip(a, b, i, len) ==
    IF i = len THEN abs_cmp_rest(a, b, len)
    ELSE abs_cmp_word(a, b, i, len, digit_diff(a[Len(a) - i], b[Len(b) - i]))

abs_cmp(a, b) == abs_cmp_zip(a, b, 0, IF Len(a) < Len(b) THEN Len(a) ELSE Len(b))

(***************************************************************************)
(* abs_cmp as a state machine: a caller holds two buffers and compares     *)
(* them once.                                                              *)
(***************************************************************************)
InitCmp ==
    /\ pc = "cmp_call"
    /\ mant \in Buffers
    /\ other \in Buffers
    /\ old = mant
    /\ k = 1
    /\ is_positive = TRUE
    /\ ret = NoRet
    /\ rm = "ToEven"
    /\ self = NoNumber
    /\ radix = "Bin"
    /\ out = Ok(NoDigits)
    /\ inp = NoDigits
    /\ prec = 0
    /\ res = Ok(NoNumber)
    /\ m2_shift = 0
    /\ result = NoResult

AbsCmpReturned(r) ==
    /\ \E panic \in {FALSE, r.overflow} :
          result' = [op |-> "abs_cmp", diff |-> r.diff, overflow |-> r.overflow,
                     panic |-> panic]
    /\ pc' = "cmp_done"
    /\ UNCHANGED <<mant, old, k, rm, is_positive, ret, self, radix, out, inp, prec, res,
                   other, m2_shift>>

AbsCmp ==
    /\ pc = "cmp_call"
    /\ AbsCmpReturned(abs_cmp(mant, other))

NextCmp == AbsCmp

SpecCmp == InitCmp /\ [][NextCmp]_vars

CmpDone == pc = "cmp_done"

Sign(x) == IF x > 0 THEN 1 ELSE IF x < 0 THEN -1 ELSE 0

\* the magnitude of a buffer as a fraction scaled to MaxWords words
Fraction(m) == WordsValue(m) * 2 ^ ((MaxWords - Len(m)) * DIGIT_BIT_SIZE)

C18_WitnessUnequal ==
    /\ CmpDone
    /\ Len(mant) < Len(other)
    /\ mant[Len(mant)] = other[Len(other)]
    /\ result.diff = -1

(***************************************************************************)
(* Mantissa::abs_add and Mantissa::abs_sub, lines 221-276.  Both read self *)
(* through ExtendedSlice and m2 through RightShiftedSlice over l words.    *)
(* debug_assert! evaluates its argument only in a build with debug         *)
(* assertions: there a failed assertion panics, and in the other builds    *)
(* the call inside it (round_mantissa at lines 242 and 266) does not run.  *)
(***************************************************************************)
\* variant: the working length without the guard word
working_len_NoGuard(a, b) == IF Len(a) > Len(b) THEN Len(a) ELSE Len(b)

working_len(a, b) == (IF Len(a) > Len(b) THEN Len(a) ELSE Len(b)) + 1

RECURSIVE add_carry(_, _, _)

\* lines 254-263: the carry c after the first j words
add_carry(m1, m2, j) ==
    IF j = 0 THEN 0
    ELSE IF add_carry(m1, m2, j - 1) + m1[j] + m2[j] >= DIGIT_BASE THEN 1 ELSE 0

add_words(m1, m2) ==
    [j \in 1 .. Len(m1) |-> (add_carry(m1, m2, j - 1) + m1[j] + m2[j]) % DIGIT_BASE]

RECURSIVE sub_borrow(_, _, _)

\* lines 228-238: the borrow c after the first j words
sub_borrow(m1, m2, j) ==
    IF j = 0 THEN 0
    ELSE IF m1[j] < m2[j] + sub_borrow(m1, m2, j - 1) THEN 1 ELSE 0

sub_words(m1, m2) ==
    [j \in 1 .. Len(m1) |->
        (m1[j] + DIGIT_BASE - m2[j] - sub_borrow(m1, m2, j - 1)) % DIGIT_BASE]

\* line 269: m3.m[l - 1] |= DIGIT_SIGNIFICANT_BIT
set_top_bit(m) ==
    [j \in 1 .. Len(m) |->
        IF j = Len(m) /\ m[j] < DIGIT_SIGNIFICANT_BIT THEN m[j] + DIGIT_SIGNIFICANT_BIT
        ELSE m[j]]

\* lines 265-269, r the outcome of round_mantissa(1 + DIGIT_BIT_SIZE, ..)
abs_add_carried(m3, debug, r) ==
    [c |-> TRUE,
     m |-> trunc_to(set_top_bit(shift_right(IF debug THEN r.m ELSE m3, 1)),
                    (Len(m3) - 1) * DIGIT_BIT_SIZE),
     carried |-> TRUE,
     rounded_up |-> debug /\ r.c,
     assert_failed |-> debug /\ r.ret]

\* lines 270-272, r the outcome of round_mantissa(DIGIT_BIT_SIZE, ..)
abs_add_rounded(r) ==
    [c |-> r.ret,
     m |-> trunc_to(r.m, (Len(r.m) - 1) * DIGIT_BIT_SIZE),
     carried |-> FALSE,
     rounded_up |-> r.c,
     assert_failed |-> FALSE]

abs_add_summed(m3, c, mode, positive, debug) ==
    IF c > 0
    THEN abs_add_carried(m3, debug, round_mantissa(m3, 1 + DIGIT_BIT_SIZE, mode, positive))
    ELSE abs_add_rounded(round_mantissa(m3, DIGIT_BIT_SIZE, mode, positive))

abs_add_slices(m1, m2, mode, positive, debug) ==
    abs_add_summed(add_words(m1, m2), add_carry(m1, m2, Len(m1)), mode, positive, debug)

\* the result is (c > 0, m3), whether the word-wise addition carried, and
\* whether the assertion of line 266 failed
abs_add(a, b, sh, mode, positive, debug) ==
    abs_add_slices(ExtendedSlice(a, working_len(a, b) - Len(a)),
                   RightShiftedSlice(b, sh, working_len(a, b)), mode, positive, debug)

\* lines 242-244, r the outcome of round_mantissa(DIGIT_BIT_SIZE, ..)
abs_sub_rounded(mx, borrow, debug, r) ==
    [shift |-> mx.shift,
     m |-> trunc_to(IF debug THEN r.m ELSE mx.m, (Len(mx.m) - 1) * DIGIT_BIT_SIZE),
     borrow |-> borrow,
     assert_failed |-> debug /\ r.ret]

abs_sub_maximized(mx, borrow, mode, positive, debug) ==
    abs_sub_rounded(mx, borrow, debug, round_mantissa(mx.m, DIGIT_BIT_SIZE, mode, positive))

abs_sub_slices(m1, m2, mode, positive, debug) ==
    abs_sub_maximized(maximize(sub_words(m1, m2)), sub_borrow(m1, m2, Len(m1)) > 0,
                      mode, positive, debug)

\* the result is (shift, m3), whether the subtraction borrowed out of the
\* top word (line 239), and whether the assertion of line 242 failed
abs_sub(a, b, sh, mode, positive, debug) ==
    abs_sub_slices(ExtendedSlice(a, working_len(a, b) - Len(a)),
                   RightShiftedSlice(b, sh, working_len(a, b)), mode, positive, debug)

(***************************************************************************)
(* abs_add and abs_sub as a state machine: a caller holds two normalised   *)
(* significands, a shift of the second, a mode and a sign, and calls one   *)
(* of the two once, in a build with or without debug assertions.           *)
(***************************************************************************)
MaxShift == (MaxWords + 1) * DIGIT_BIT_SIZE + 1

OperandDigits == {0, 1, DIGIT_SIGNIFICANT_BIT - 1, DIGIT_SIGNIFICANT_BIT, DIGIT_MAX}

Normalised == {b \in Buffers : b[Len(b)] >= DIGIT_SIGNIFICANT_BIT}

Operands == {b \in Normalised : \A j \in 1 .. Len(b) : b[j] \in OperandDigits}

InitAddSub ==
    /\ pc = "addsub_call"
    /\ mant \in Operands
    /\ other \in Operands
    /\ m2_shift \in 0 .. MaxShift
    /\ rm \in ArithModes
    /\ is_positive \in BOOLEAN
    /\ old = mant
    /\ k = 1
    /\ ret = NoRet
    /\ self = NoNumber
    /\ radix = "Bin"
    /\ out = Ok(NoDigits)
    /\ inp = NoDigits
    /\ prec = 0
    /\ res = Ok(NoNumber)
    /\ result = NoResult

AbsAdd ==
    /\ pc = "addsub_call"
    /\ \E debug \in BOOLEAN :
          result' = [op |-> "abs_add", debug |-> debug,
                     r |-> abs_add(mant, other, m2_shift, rm, is_positive, debug)]
    /\ pc' = "add_done"
    /\ UNCHANGED <<mant, old, k, rm, is_positive, ret, self, radix, out, inp, prec, res,
                   other, m2_shift>>

\* abs_sub is called with self not below m2 shifted right by m2_shift
AbsSub ==
    /\ pc = "addsub_call"
    /\ Fraction(mant) * 2 ^ m2_shift >= Fraction(other)
    /\ \E debug \in BOOLEAN :
          result' = [op |-> "abs_sub", debug |-> debug,
                     r |-> abs_sub(mant, other, m2_shift, rm, is_positive, debug)]
    /\ pc' = "sub_done"
    /\ UNCHANGED <<mant, old, k, rm, is_positive, ret, self, radix, out, inp, prec, res,
                   other, m2_shift>>

NextAddSub == AbsAdd \/ AbsSub

SpecAddSub == InitAddSub /\ [][NextAddSub]_vars

AddDone == pc = "add_done"

SubDone == pc = "sub_done"

\* the exact sum of the two operands in units of 2^-(MaxWords*W + MaxShift)
ExactSum == Fraction(mant) * 2 ^ MaxShift + Fraction(other) * 2 ^ (MaxShift - m2_shift)

\* the unit of the last place of the sum at max(|A|,|B|) words, same units
SumUnit ==
    LET lost == (MaxWords + 1 - working_len(mant, other)) * DIGIT_BIT_SIZE
    IN  IF ExactSum >= 2 ^ (MaxWords * DIGIT_BIT_SIZE + MaxShift)
        THEN 2 ^ (MaxShift + lost + 1)
        ELSE 2 ^ (MaxShift + lost)

\* the exact sum rounded to nearest, ties to even
NearestEven(x, unit) ==
    LET q == x \div unit
        r == x % unit
    IN  IF 2 * r > unit \/ (2 * r = unit /\ q % 2 = 1) THEN (q + 1) * unit ELSE q * unit

\* the value abs_add returned: (c, m) is the fraction m times 2^c
AddValue ==
    Fraction(result.r.m) * 2 ^ MaxShift * (IF result.r.c THEN 2 ELSE 1)

\* C16: under ToEven abs_add returns the correctly rounded value of
\* A + B * 2^-shift at max(|A|,|B|) words: a tail below half a unit is
\* dropped, a tail of exactly half goes to the even neighbour, a tail above
\* half rounds up, also when the deciding bits of B were shifted past the
\* guard word.
C16_AddToEven ==
    (AddDone /\ rm = "ToEven" /\ ~result.r.assert_failed) =>
        /\ Len(result.r.m) = working_len(mant, other) - 1
        /\ AddValue = NearestEven(ExactSum, SumUnit)

\* the same in a build with debug assertions only
C16_AddToEvenDebug ==
    (AddDone /\ rm = "ToEven" /\ result.debug /\ ~result.r.assert_failed) =>
        AddValue = NearestEven(ExactSum, SumUnit)

\* the same when no bit of B is shifted past the guard word
C16_AddToEvenNothingLost ==
    (AddDone /\ rm = "ToEven" /\ result.debug /\ ~result.r.assert_failed
        /\ Fraction(other) % (2 ^ m2_shift) = 0 /\ m2_shift <= DIGIT_BIT_SIZE) =>
        AddValue = NearestEven(ExactSum, SumUnit)

\* C19: in abs_sub, for normalised operands with self not below m2 shifted
\* right by m2_shift, rounding the renormalised difference by one guard word
\* never carries: the assertion of line 242 holds.
C19_SubRoundingNeverCarries ==
    (SubDone /\ result.debug) => ~result.r.assert_failed

\* C20: in abs_add, when the word-wise addition carried out of the top
\* word, rounding at DIGIT_BIT_SIZE + 1 bits does not carry again: the
\* assertion of line 266 holds.
C20_AddCarryThenNoRoundingCarry ==
    (AddDone /\ result.debug /\ result.r.carried) => ~result.r.assert_failed

\* the word-wise addition carried and the rounding added one
C20_Witness ==
    /\ AddDone
    /\ result.debug
    /\ result.r.carried
    /\ result.r.rounded_up
    /\ ~result.r.assert_failed

\* the mantissa the other build returns for the same call, and whether its
\* assertion fails
OtherBuild ==
    IF result.op = "abs_add"
    THEN abs_add(mant, other, m2_shift, rm, is_positive, ~result.debug)
    ELSE abs_sub(mant, other, m2_shift, rm, is_positive, ~result.debug)

\* C29: the mantissa returned by abs_sub, and by abs_add on its carry path,
\* is the same with and without debug assertions: the rounding does not
\* depend on the round_mantissa call written inside debug_assert!.
C29_SameWithoutDebugAssertions ==
    ((SubDone \/ (AddDone /\ result.r.carried))
        /\ ~result.r.assert_failed /\ ~OtherBuild.assert_failed) =>
        result.r.m = OtherBuild.m

\* the two builds differ only where round_mantissa changes a word, and then
\* the build with assertions holds the rounded mantissa and the other one the
\* truncated mantissa
C29_BuildsDifferByRounding ==
    ((SubDone \/ (AddDone /\ result.r.carried))
        /\ ~result.r.assert_failed /\ ~OtherBuild.assert_failed
        /\ result.r.m # OtherBuild.m) =>
        WordsValue(IF result.debug THEN result.r.m ELSE OtherBuild.m)
            > WordsValue(IF result.debug THEN OtherBuild.m ELSE result.r.m)

\* on the path of abs_add without a carry the two builds return the same
C29_SameWithoutCarry ==
    (AddDone /\ ~result.r.carried) =>
        /\ result.r.m = OtherBuild.m
        /\ result.r.c = OtherBuild.c

(***************************************************************************)
(* Mantissa::mul, lines 279-325.  toom3_cost_estimate (line 331) is false  *)
(* for operands shorter than 70 words, so the product is the plain         *)
(* multiplication of lines 294-308.                                        *)
(***************************************************************************)
RECURSIVE mul_row(_, _, _, _, _, _)

\* variant: the high half of m is not carried into the next word
mul_row_step_NoCarry(m3, d1mi, b, i, j, m) ==
    mul_row(SetWord(m3, i + j, m % DIGIT_BASE), d1mi, b, i, j + 1, 0)

\* lines 303-306: m is d1mi * m2j + m3ij + k
mul_row_step(m3, d1mi, b, i, j, m) ==
    mul_row(SetWord(m3, i + j, m % DIGIT_BASE), d1mi, b, i, j + 1, m \div DIGIT_BASE)

\* lines 301-308: one word of self times m2, added into m3[i..]
mul_row(m3, d1mi, b, i, j, carry) ==
    IF j = Len(b)
    THEN SetWord(m3, i + Len(b), (m3[i + Len(b) + 1] + carry) % DIGIT_BASE)
    ELSE mul_row_step(m3, d1mi, b, i, j, d1mi * b[j + 1] + m3[i + j + 1] + carry)

RECURSIVE mul_rows(_, _, _, _)

\* lines 295-309
mul_rows(m3, a, b, i) ==
    IF i = Len(a) THEN m3
    ELSE IF a[i + 1] = 0 THEN mul_rows(m3, a, b, i + 1)
    ELSE mul_rows(mul_row(m3, a[i + 1], b, i, 0, 0), a, b, i + 1)

RECURSIVE mul_row_overflows(_, _, _, _, _, _)

\* lines 302-308: whether m leaves the DoubleDigit of line 302, or the += of
\* line 308 leaves the Digit, in the row of word i
mul_row_overflows(m3, d1mi, b, i, j, carry) ==
    IF j = Len(b)
    THEN m3[i + Len(b) + 1] + carry >= DIGIT_BASE
    ELSE \/ d1mi * b[j + 1] + m3[i + j + 1] + carry >= DIGIT_BASE * DIGIT_BASE
         \/ mul_row_overflows(m3, d1mi, b, i, j + 1,
                (d1mi * b[j + 1] + m3[i + j + 1] + carry) \div DIGIT_BASE)

RECURSIVE mul_overflows(_, _, _, _)

\* lines 295-309: whether any row overflows, m3 the buffer before row i
mul_overflows(m3, a, b, i) ==
    IF i = Len(a) THEN FALSE
    ELSE IF a[i + 1] = 0 THEN mul_overflows(m3, a, b, i + 1)
    ELSE \/ mul_row_overflows(m3, a[i + 1], b, i, 0, 0)
         \/ mul_overflows(mul_row(m3, a[i + 1], b, i, 0, 0), a, b, i + 1)

\* lines 287, 296: m3 of self.len() + m2.len() words, filled with zeros
mul_buffer(a, b) == [j \in 1 .. Len(a) + Len(b) |-> 0]

\* lines 312-323, r the outcome of round_mantissa(bit_len - l, ..)
mul_rounded(mx, l, r) ==
    [shift |-> mx.shift + (IF r.ret THEN 1 ELSE 0),
     m |-> trunc_to(r.m, l),
     maximized |-> mx.shift,
     carry |-> r.ret,
     rounded_up |-> r.c,
     assert_failed |-> mx.shift + (IF r.ret THEN 1 ELSE 0) > 2]

mul_maximized(mx, l, mode, positive) ==
    mul_rounded(mx, l, round_mantissa(mx.m, max_bit_len(mx.m) - l, mode, positive))

\* the result is (shift, ret), with the shift maximize returned, whether
\* the rounding carried, and whether the assertion of line 323 failed
Mantissa_mul(a, b, mode, positive) ==
    mul_maximized(maximize(mul_rows(mul_buffer(a, b), a, b, 0)),
                  (working_len(a, b) - 1) * DIGIT_BIT_SIZE, mode, positive)

(***************************************************************************)
(* mul as a state machine: a caller holds two normalised significands and  *)
(* multiplies them once.                                                   *)
(***************************************************************************)
InitMul ==
    /\ pc = "mul_call"
    /\ mant \in Normalised
    /\ other \in Normalised
    /\ m2_shift = 0
    /\ rm = "ToEven"
    /\ is_positive = TRUE
    /\ old = mant
    /\ k = 1
    /\ ret = NoRet
    /\ self = NoNumber
    /\ radix = "Bin"
    /\ out = Ok(NoDigits)
    /\ inp = NoDigits
    /\ prec = 0
    /\ res = Ok(NoNumber)
    /\ result = NoResult

Mul ==
    /\ pc = "mul_call"
    /\ \E mode \in ArithModes, positive \in BOOLEAN :
          /\ rm' = mode
          /\ is_positive' = positive
          /\ result' = [op |-> "mul", r |-> Mantissa_mul(mant, other, mode, positive),
                         product |-> mul_rows(mul_buffer(mant, other), mant, other, 0),
                         overflows |-> mul_overflows(mul_buffer(mant, other), mant, other, 0)]
    /\ pc' = "mul_done"
    /\ UNCHANGED <<mant, old, k, ret, self, radix, out, inp, prec, res, other, m2_shift>>

NextMul == Mul

SpecMul == InitMul /\ [][NextMul]_vars

MulDone == pc = "mul_done"

\* the rounding of x to a multiple of unit that the mode asks for, decided
\* from the guard bit, the bits below it and the last kept bit
RoundedTo(x, unit, mode, positive) ==
    LET q == x \div unit
        r == x % unit
        G == IF 2 * r >= unit THEN 1 ELSE 0
        exact == (2 * r) % unit = 0
    IN  IF round_decision(G, exact, q, mode, positive) THEN (q + 1) * unit ELSE q * unit

ResultBits == (working_len(mant, other) - 1) * DIGIT_BIT_SIZE

\* the exact product in units of 2^-(2*MaxWords*W)
ExactProduct == Fraction(mant) * Fraction(other)

\* the unit of the last place of the product at max(|A|,|B|) words
ProductUnit ==
    IF ExactProduct >= 2 ^ (2 * MaxWords * DIGIT_BIT_SIZE - 1)
    THEN 2 ^ (2 * MaxWords * DIGIT_BIT_SIZE - ResultBits)
    ELSE 2 ^ (2 * MaxWords * DIGIT_BIT_SIZE - 1 - ResultBits)

RoundedProduct == RoundedTo(ExactProduct, ProductUnit, rm, is_positive)

\* frac(M) in the units of ExactProduct
MulFraction == Fraction(result.r.m) * 2 ^ (MaxWords * DIGIT_BIT_SIZE)

MulShape ==
    /\ Len(result.r.m) = working_len(mant, other) - 1
    /\ result.r.m[Len(result.r.m)] >= DIGIT_SIGNIFICANT_BIT

\* C14: mul returns (shift, M) with M of max(|A|,|B|) words and its top
\* bit set, and the shift is to be read with one sign: frac(M) * 2^-shift
\* is the exact product rounded to that width, after a renormalising left
\* shift and after a rounding carry alike.
C14_MulShiftConvention ==
    MulDone => MulShape /\ MulFraction = RoundedProduct * 2 ^ result.r.shift

\* the other sign, frac(M) * 2^shift, does not fit a renormalising shift
C14_MulShiftNotAdded ==
    (MulDone /\ result.r.maximized > 0 /\ ~result.r.carry) =>
        MulFraction * 2 ^ result.r.shift # RoundedProduct

\* without a rounding carry the shift is the one of maximize and is
\* subtracted; a rounding carry undoes one renormalising shift
C14_MulShiftOfMaximize ==
    MulDone =>
        /\ MulShape
        /\ result.r.maximized <= 1
        /\ result.r.carry => result.r.maximized = 1
        /\ MulFraction * (IF result.r.carry THEN 2 ELSE 1)
              = RoundedProduct * 2 ^ result.r.maximized

\* C21: for normalised operands the plain multiplication writes the exact
\* integer product A*B into the buffer of |A|+|B| words, no partial sum
\* leaves the double word and no carry leaves its word, and the shift
\* returned is at most 2 in every rounding mode (the assertion of line 323
\* holds).
C21_MulExactProductShiftAtMostTwo ==
    MulDone =>
        /\ ~result.overflows
        /\ Len(result.product) = Len(mant) + Len(other)
        /\ WordsValue(result.product) = WordsValue(mant) * WordsValue(other)
        /\ result.r.shift <= 2
        /\ ~result.r.assert_failed

\* two operands of two words whose product renormalises and whose rounding
\* carries, so the shift is 2
C21_Witness ==
    /\ MulDone
    /\ Len(mant) = 2
    /\ Len(other) = 2
    /\ result.r.shift = 2
    /\ WordsValue(result.product) = WordsValue(mant) * WordsValue(other)

\* a partial sum that fills its double word: d1mi * m2j + m3ij + k = 2^(2W) - 1
C21_WitnessFullWord ==
    /\ MulDone
    /\ ~result.overflows
    /\ \E i \in 1 .. Len(result.product) : result.product[i] = DIGIT_MAX

(***************************************************************************)
(* Mantissa::div, lines 359-506, and mul_by_digit, lines 509-516.          *)
(* The quotient is made in m3 (l1 words, most significant first); buf1     *)
(* holds the scaled dividend and buf2 the scaled divisor.                  *)
(***************************************************************************)
extra_p == 2

\* the t-th word of m counted from the most significant one, 0 past the end
\* (iter().rev() with unwrap_or(&0), lines 382-401)
rev_word(m, t) == IF t < Len(m) THEN m[Len(m) - t] ELSE 0

RECURSIVE div_single_loop(_, _, _, _, _, _)

\* lines 393-398, qh is rh * DIGIT_BASE + val
div_single_step(a, d, m3, pos, t, qh) ==
    div_single_loop(a, d, SetWord(m3, pos - 1, (qh \div d) % DIGIT_BASE), pos - 1, t + 1, qh % d)

\* lines 391-402: pos words of m3 are still to be written
div_single_loop(a, d, m3, pos, t, rh) ==
    IF pos = 0 THEN m3
    ELSE div_single_step(a, d, m3, pos, t, rh * DIGIT_BASE + rev_word(a, t))

\* lines 378-402: division by a single digit
div_single(a, d, l1) ==
    IF rev_word(a, 0) < d
    THEN [m3 |-> div_single_loop(a, d, [j \in 1 .. l1 |-> 0], l1, 1, rev_word(a, 0)),
          e_shift |-> 0, failed |-> FALSE, long |-> FALSE,
          decs |-> 0, wide |-> FALSE, wrong |-> FALSE, backs |-> 0]
    ELSE [m3 |-> div_single_loop(a, d, [j \in 1 .. l1 |-> 0], l1, 0, 0),
          e_shift |-> 1, failed |-> FALSE, long |-> FALSE,
          decs |-> 0, wide |-> FALSE, wrong |-> FALSE, backs |-> 0]

RECURSIVE mul_by_digit_m(_, _, _)

\* mul_by_digit, the local m after the first j words
mul_by_digit_m(d1, d, j) ==
    IF j = 0 THEN 0 ELSE d1[j] * d + mul_by_digit_m(d1, d, j - 1) \div DIGIT_BASE

\* the Len(d1) + 1 words written to d3
mul_by_digit(d1, d) ==
    [j \in 1 .. Len(d1) + 1 |->
        IF j <= Len(d1) THEN mul_by_digit_m(d1, d, j) % DIGIT_BASE
        ELSE mul_by_digit_m(d1, d, Len(d1)) \div DIGIT_BASE]

\* lines 410-415: the operand times d (copied when d = 1), with the word above it
div_scaled(m, d) ==
    IF d = 1 THEN [j \in 1 .. Len(m) + 1 |-> IF j <= Len(m) THEN m[j] ELSE 0]
    ELSE mul_by_digit(m, d)

\* lines 407-415: buf1 of 2*l1 + 3 words, the scaled dividend from index n1 + extra_p
div_buf1(scaled, l1) ==
    [i \in 1 .. 2 * l1 + 3 |->
        IF i - 1 >= 2 + l1 + extra_p /\ i - 1 < 2 + l1 + extra_p + Len(scaled)
        THEN scaled[i - (2 + l1 + extra_p)]
        ELSE 0]

\* variant: the trial quotient is compared with the next word of the
\* divisor only when it does not fit a word
div_qh_corrected_WideOnly(qh, rh, buf10, v1, v2) ==
    IF qh >= DIGIT_BASE
    THEN IF rh + v1 < DIGIT_BASE /\ qh - 1 >= DIGIT_BASE THEN qh - 2 ELSE qh - 1
    ELSE qh

\* lines 435-441: the two corrections of the trial quotient
div_qh_corrected(qh, rh, buf10, v1, v2) ==
    IF qh >= DIGIT_BASE \/ qh * v2 > DIGIT_BASE * rh + buf10
    THEN IF rh + v1 < DIGIT_BASE
            /\ (qh - 1 >= DIGIT_BASE \/ (qh - 1) * v2 > DIGIT_BASE * (rh + v1) + buf10)
         THEN qh - 2
         ELSE qh - 1
    ELSE qh

\* lines 427-433: the trial quotient of the two upper words by v1
div_qh(buf12, buf11, buf10, v1, v2) ==
    div_qh_corrected((buf12 * DIGIT_BASE + buf11) \div v1,
                     (buf12 * DIGIT_BASE + buf11) % v1, buf10, v1, v2)

RECURSIVE div_sub(_, _, _, _, _, _, _, _)

div_sub_word(buf1, buf2, n1j, qh, i, cnt, kk, val) ==
    IF buf1[n1j + i + 1] < val
    THEN div_sub(SetWord(buf1, n1j + i, buf1[n1j + i + 1] + DIGIT_BASE - val),
                 buf2, n1j, qh, i + 1, cnt, kk, 1)
    ELSE div_sub(SetWord(buf1, n1j + i, buf1[n1j + i + 1] - val),
                 buf2, n1j, qh, i + 1, cnt, kk, 0)

div_sub_step(buf1, buf2, n1j, qh, i, cnt, kk, c) ==
    div_sub_word(buf1, buf2, n1j, qh, i, cnt, kk, (kk % DIGIT_BASE) + c)

\* lines 443-456: buf1[n1j..] -= buf2 * qh, over cnt words
div_sub(buf1, buf2, n1j, qh, i, cnt, kk, c) ==
    IF i = cnt THEN [buf |-> buf1, c |-> c]
    ELSE div_sub_step(buf1, buf2, n1j, qh, i, cnt,
                      buf2[i + 1] * qh + kk \div DIGIT_BASE, c)

RECURSIVE div_add(_, _, _, _, _, _)

div_add_word(buf1, buf2, n1j, i, cnt, val) ==
    div_add(SetWord(buf1, n1j + i, val % DIGIT_BASE), buf2, n1j, i + 1, cnt,
            IF val >= DIGIT_BASE THEN 1 ELSE 0)

\* lines 458-473: compensate, buf1[n1j..] += buf2
div_add(buf1, buf2, n1j, i, cnt, c) ==
    IF i = cnt THEN [buf |-> buf1, c |-> c]
    ELSE div_add_word(buf1, buf2, n1j, i, cnt, buf1[n1j + i + 1] + buf2[i + 1] + c)

RECURSIVE div_loop(_, _, _, _)

\* line 431: the trial quotient of this pass before any correction
div_trial(st, buf2, n, n1) ==
    (st.buf1[n1 + st.j + n + 2] * DIGIT_BASE + st.buf1[n1 + st.j + n + 1]) \div buf2[n + 1]

\* the n + 2 words of buf1 this pass works on (buf1[n1j..n1j+n+2], line 447),
\* as an integer, divided by the divisor in buf2
div_digit(st, buf2, n, n1) ==
    WordsValue([i \in 1 .. n + 2 |-> st.buf1[n1 + st.j + i]]) \div WordsValue(buf2)

\* lines 475-491: the quotient word is written when m3 has room for it and
\* the loop goes on; ad is buf1 after the step and the carry of the
\* compensation (line 472), back whether the compensation ran.  The fields
\* decs, wide, wrong and backs observe the passes: the most qh was lowered
\* in one pass, whether a qh did not fit a Digit, whether a qh was not the
\* quotient of its window by the divisor, and how often compensation ran.
div_written(st, buf2, n, n1, qh, ad, back) ==
    div_loop([buf1 |-> ad.buf,
              m3 |-> IF st.pos > 0 /\ (st.in_loop \/ qh > 0)
                     THEN SetWord(st.m3, st.pos - 1, qh % DIGIT_BASE)
                     ELSE st.m3,
              pos |-> st.pos - 1,
              j |-> st.j - 1,
              in_loop |-> TRUE,
              e_shift |-> IF st.pos = 0 \/ st.in_loop \/ qh > 0 THEN st.e_shift ELSE 0,
              failed |-> st.failed \/ ad.c = 0,
              long |-> TRUE,
              decs |-> IF div_trial(st, buf2, n, n1) - qh > st.decs
                       THEN div_trial(st, buf2, n, n1) - qh ELSE st.decs,
              wide |-> st.wide \/ qh >= DIGIT_BASE,
              wrong |-> st.wrong \/ qh # div_digit(st, buf2, n, n1),
              backs |-> st.backs + (IF back THEN 1 ELSE 0)],
             buf2, n, n1)

div_subtracted(st, buf2, n, n1, qh, sub) ==
    IF sub.c > 0
    THEN div_written(st, buf2, n, n1, qh - 1,
                     div_add(sub.buf, buf2, n1 + st.j, 0, n + 2, 0), TRUE)
    ELSE div_written(st, buf2, n, n1, qh, [buf |-> sub.buf, c |-> 1], FALSE)

div_iter(st, buf2, n, n1, qh) ==
    div_subtracted(st, buf2, n, n1, qh, div_sub(st.buf1, buf2, n1 + st.j, qh, 0, n + 2, 0, 0))

\* lines 426-491: one quotient word per pass; the pass that finds m3 full
\* (line 481) is the last one
div_loop(st, buf2, n, n1) ==
    IF st.pos < 0 \/ n1 + st.j < 0 THEN st
    ELSE div_iter(st, buf2, n, n1,
                  div_qh(st.buf1[n1 + st.j + n + 2], st.buf1[n1 + st.j + n + 1],
                         st.buf1[n1 + st.j + n], buf2[n + 1], buf2[n]))

\* lines 403-491: division by a divisor of more than one word
div_long(a, b, l1, d) ==
    div_loop([buf1 |-> div_buf1(div_scaled(a, d), l1),
              m3 |-> [j \in 1 .. l1 |-> 0],
              pos |-> l1,
              j |-> (l1 - 1) - (Len(b) - 1),
              in_loop |-> FALSE,
              e_shift |-> 1,
              failed |-> FALSE,
              long |-> TRUE,
              decs |-> 0,
              wide |-> FALSE,
              wrong |-> FALSE,
              backs |-> 0],
             div_scaled(b, d), Len(b) - 1, 2 + l1)

\* lines 361-492: m3 and e_shift before maximize
div_quotient(a, b) ==
    IF Len(b) = 1
    THEN div_single(a, b[1], working_len(a, b) - 1 + extra_p)
    ELSE div_long(a, b, working_len(a, b) - 1 + extra_p,
                  DIGIT_BASE \div (b[Len(b)] + 1))

\* lines 495-500, r the outcome of round_mantissa(extra_p * DIGIT_BIT_SIZE, ..)
div_rounded(q, r) ==
    [e_shift |-> q.e_shift + (IF r.ret THEN 1 ELSE 0),
     m |-> trunc_to(r.m, max_bit_len(r.m) - extra_p * DIGIT_BIT_SIZE),
     before |-> q.e_shift,
     carry |-> r.ret,
     rounded_up |-> r.c,
     assert_failed |-> q.failed,
     long |-> q.long,
     decs |-> q.decs,
     wide |-> q.wide,
     wrong |-> q.wrong,
     backs |-> q.backs]

div_maximized(q, mx, mode, positive) ==
    div_rounded(q, round_mantissa(mx.m, extra_p * DIGIT_BIT_SIZE, mode, positive))

div_finish(q, mode, positive) == div_maximized(q, maximize(q.m3), mode, positive)

\* the result is (e_shift, m3), with e_shift before the rounding carry,
\* whether the rounding carried, and whether the assertion of line 472 failed
Mantissa_div(a, b, mode, positive) == div_finish(div_quotient(a, b), mode, positive)

(***************************************************************************)
(* div as a state machine: a caller holds two normalised significands of   *)
(* the same length and divides them once.                                  *)
(***************************************************************************)
InitDiv ==
    /\ pc = "div_call"
    /\ mant \in Normalised
    /\ other \in {b \in Normalised : Len(b) = Len(mant)}
    /\ m2_shift = 0
    /\ rm = "ToEven"
    /\ is_positive = TRUE
    /\ old = mant
    /\ k = 1
    /\ ret = NoRet
    /\ self = NoNumber
    /\ radix = "Bin"
    /\ out = Ok(NoDigits)
    /\ inp = NoDigits
    /\ prec = 0
    /\ res = Ok(NoNumber)
    /\ result = NoResult

Div ==
    /\ pc = "div_call"
    /\ \E mode \in ArithModes, positive \in BOOLEAN :
          /\ rm' = mode
          /\ is_positive' = positive
          /\ result' = [op |-> "div", r |-> Mantissa_div(mant, other, mode, positive)]
    /\ pc' = "div_done"
    /\ UNCHANGED <<mant, old, k, ret, self, radix, out, inp, prec, res, other, m2_shift>>

NextDiv == Div

SpecDiv == InitDiv /\ [][NextDiv]_vars

DivDone == pc = "div_done"

(***************************************************************************)
(* The divisor of several words: the operands go up to DivWords words, so  *)
(* that the divisor has words below v1 and v2 and the compensation of      *)
(* lines 458-473 runs.                                                     *)
(***************************************************************************)
DivWords == MaxWords + 1

LongOperands(lo) ==
    {m \in UNION {[1 .. n -> OperandDigits] : n \in lo .. DivWords} :
        m[Len(m)] >= DIGIT_SIGNIFICANT_BIT}

InitDivLong ==
    /\ pc = "div_call"
    /\ mant \in LongOperands(1)
    /\ other \in LongOperands(2)
    /\ m2_shift = 0
    /\ rm = "ToEven"
    /\ is_positive = TRUE
    /\ old = mant
    /\ k = 1
    /\ ret = NoRet
    /\ self = NoNumber
    /\ radix = "Bin"
    /\ out = Ok(NoDigits)
    /\ inp = NoDigits
    /\ prec = 0
    /\ res = Ok(NoNumber)
    /\ result = NoResult

SpecDivLong == InitDivLong /\ [][NextDiv]_vars

\* C22: in the path of a divisor of several words, normalised, the trial
\* digit qh is lowered at most twice in a pass (corrections of the estimate
\* and compensation together), every qh fits a word and is the quotient of
\* its window of the remainder by the divisor, and the compensation always
\* ends with a carry (the assertion of line 472 holds).
C22_DivLongDigits ==
    (DivDone /\ result.r.long) =>
        /\ result.r.decs <= 2
        /\ ~result.r.wide
        /\ ~result.r.wrong
        /\ ~result.r.assert_failed

\* a division in which the compensation ran after a correction of the
\* estimate in the same pass
C22_Witness ==
    /\ DivDone
    /\ result.r.long
    /\ result.r.backs > 0
    /\ result.r.decs = 2
    /\ ~result.r.assert_failed

\* the exponent of the quotient: 1 when A is not below B, else 0
QuotientExponent == IF WordsValue(mant) >= WordsValue(other) THEN 1 ELSE 0

\* the bits of A/B down to the last place of N words, and what is left
QuotientScale == 2 ^ (max_bit_len(mant) - QuotientExponent)

QuotientFloor == (WordsValue(mant) * QuotientScale) \div WordsValue(other)

QuotientRest == (WordsValue(mant) * QuotientScale) % WordsValue(other)

\* the exact quotient rounded to N words as the mode asks, decided from the
\* first bit below the last place and from everything below that bit
RoundedQuotient ==
    LET G == IF 2 * QuotientRest >= WordsValue(other) THEN 1 ELSE 0
        exact == 2 * QuotientRest - G * WordsValue(other) = 0
    IN  IF round_decision(G, exact, QuotientFloor, rm, is_positive)
        THEN QuotientFloor + 1
        ELSE QuotientFloor

DivShape ==
    /\ Len(result.r.m) = Len(mant)
    /\ result.r.m[Len(result.r.m)] >= DIGIT_SIGNIFICANT_BIT

\* C15: for normalised A and B of N words div returns (e_shift, Q) with Q
\* of N words and its top bit set, frac(Q) * 2^e_shift is the exact quotient
\* correctly rounded, every bit and the remainder below the two guard words
\* counted, and before the rounding carry e_shift is 1 iff A >= B.
C15_DivRounded ==
    DivDone =>
        /\ DivShape
        /\ result.r.before = QuotientExponent
        /\ WordsValue(result.r.m) * 2 ^ result.r.e_shift
              = RoundedQuotient * 2 ^ QuotientExponent

\* the shape of the result and the exponent shift are as stated
C15_DivShapeAndShift ==
    DivDone =>
        /\ DivShape
        /\ result.r.before = QuotientExponent
        /\ result.r.e_shift = result.r.before + (IF result.r.carry THEN 1 ELSE 0)
        /\ ~result.r.assert_failed

\* the result is correctly rounded whenever the quotient ends within the
\* bits that m3 holds
C15_DivRoundedWhenExact ==
    (DivDone /\ (WordsValue(mant) * QuotientScale * 2 ^ DIGIT_BIT_SIZE)
                    % WordsValue(other) = 0) =>
        WordsValue(result.r.m) * 2 ^ result.r.e_shift
            = RoundedQuotient * 2 ^ QuotientExponent

(***************************************************************************)
(* The decimal round trip (test_conv, conv.rs 718-727 and 761-775).        *)
(* Values are compared in units of 2^base; a value too large for the       *)
(* comparison is replaced by Huge, which exceeds every bound used here.    *)
(***************************************************************************)
Huge == 2 ^ 30

UnitShift(v, base) == v.e - max_bit_len(v.m) - base

\* |v| in units of 2^base, rounded down and rounded up
FloorUnits(v, base) ==
    IF WordsValue(v.m) = 0 THEN 0
    ELSE IF UnitShift(v, base) > 16 THEN Huge
    ELSE IF UnitShift(v, base) >= 0 THEN WordsValue(v.m) * 2 ^ UnitShift(v, base)
    ELSE IF UnitShift(v, base) < -30 THEN 0
    ELSE WordsValue(v.m) \div 2 ^ (-UnitShift(v, base))

CeilUnits(v, base) ==
    IF WordsValue(v.m) = 0 THEN 0
    ELSE IF UnitShift(v, base) > 16 THEN Huge
    ELSE IF UnitShift(v, base) >= 0 THEN WordsValue(v.m) * 2 ^ UnitShift(v, base)
    ELSE IF UnitShift(v, base) < -30 THEN 1
    ELSE (WordsValue(v.m) + 2 ^ (-UnitShift(v, base)) - 1) \div 2 ^ (-UnitShift(v, base))

\* |x - y| <= eps * 2^base, for x a whole number of units
Within(x, y, base, eps) ==
    IF x.s = y.s \/ WordsValue(y.m) = 0 \/ WordsValue(x.m) = 0
    THEN /\ CeilUnits(y, base) <= FloorUnits(x, base) + eps
         /\ FloorUnits(x, base) - eps <= FloorUnits(y, base)
    ELSE FloorUnits(x, base) + CeilUnits(y, base) <= eps

MinPrecision == IF max_bit_len(self.m) < prec THEN max_bit_len(self.m) ELSE prec

DecimalRoundTrip == pc = "back" /\ radix = "Dec" /\ rm = "ToEven" /\ res.ok

C17_WitnessSubnormal ==
    /\ DecimalRoundTrip
    /\ ~IsNormal(self) /\ IsValue(self)
    /\ IsValue(res.v)

(***************************************************************************)
(* Mantissa::mask_bits, lines 563-574.  The local n is lowered by a word   *)
(* for every word set to 0, and is left as it is by a word that is masked. *)
(***************************************************************************)
RECURSIVE BitAnd(_, _)

\* a & b
BitAnd(a, b) ==
    IF a = 0 \/ b = 0 THEN 0
    ELSE (IF a % 2 = 1 /\ b % 2 = 1 THEN 1 ELSE 0) + 2 * BitAnd(a \div 2, b \div 2)

RECURSIVE mask_bits_from(_, _, _)

\* lines 564-572: the loop from the word of 0-based index j on
mask_bits_from(m, j, n) ==
    IF j = Len(m) THEN m
    ELSE IF n >= DIGIT_BIT_SIZE
         THEN mask_bits_from(SetWord(m, j, 0), j + 1, n - DIGIT_BIT_SIZE)
         ELSE mask_bits_from(SetWord(m, j, BitAnd(m[j + 1], Shl(DIGIT_MAX, n))), j + 1, n)

mask_bits(m, n) == mask_bits_from(m, 0, n)

(***************************************************************************)
(* mask_bits as a state machine: a caller holds a buffer and clears its k  *)
(* low bits once.                                                          *)
(***************************************************************************)
InitMask ==
    /\ pc = "mask_call"
    /\ mant \in Buffers
    /\ old = mant
    /\ k \in 0 .. max_bit_len(mant)
    /\ rm = "None"
    /\ is_positive = TRUE
    /\ ret = NoRet
    /\ self = NoNumber
    /\ radix = "Bin"
    /\ out = Ok(NoDigits)
    /\ inp = NoDigits
    /\ prec = 0
    /\ res = Ok(NoNumber)
    /\ other = <<0>>
    /\ m2_shift = 0
    /\ result = NoResult

MaskBits ==
    /\ pc = "mask_call"
    /\ mant' = mask_bits(mant, k)
    /\ pc' = "mask_done"
    /\ UNCHANGED <<old, k, rm, is_positive, ret, self, radix, out, inp, prec, res,
                   other, m2_shift, result>>

NextMask == MaskBits

SpecMask == InitMask /\ [][NextMask]_vars

MaskDone == pc = "mask_done"

\* bit b (0 the least significant) of the integer the buffer stores
BitOf(m, b) == (m[b \div DIGIT_BIT_SIZE + 1] \div 2 ^ (b % DIGIT_BIT_SIZE)) % 2

\* C23: mask_bits(n) sets exactly the n least significant bits of the
\* mantissa to 0 and leaves every other bit of every word as it was, for
\* every n from 0 to the bit length of the buffer.
C23_MaskBitsFrame ==
    MaskDone =>
        /\ Len(mant) = Len(old)
        /\ \A b \in 0 .. max_bit_len(old) - 1 :
              BitOf(mant, b) = IF b < k THEN 0 ELSE BitOf(old, b)

\* what the call does clear: the k low bits, and in every word above the
\* masked one the k % W low bits too
C23_MaskBitsEveryWord ==
    MaskDone =>
        \A b \in 0 .. max_bit_len(old) - 1 :
            BitOf(mant, b) = IF b < k \/ b % DIGIT_BIT_SIZE < k % DIGIT_BIT_SIZE
                             THEN 0 ELSE BitOf(old, b)

\* the statement holds when no word lies above the masked one, or n is a
\* multiple of the word size
C23_MaskBitsWholeWords ==
    (MaskDone /\ (k % DIGIT_BIT_SIZE = 0 \/ k >= max_bit_len(old) - DIGIT_BIT_SIZE)) =>
        \A b \in 0 .. max_bit_len(old) - 1 :
            BitOf(mant, b) = IF b < k THEN 0 ELSE BitOf(old, b)

(***************************************************************************)
(* The constructors of Mantissa, lines 41-97, from_u64, lines 518-533, and *)
(* normilize, lines 553-560, with the bit length n they store.  abs_add,   *)
(* abs_sub, mul and div store n = max_bit_len() (lines 244, 274, 321,      *)
(* 502-503).                                                               *)
(***************************************************************************)
Mantissa(m, n) == [returned |-> TRUE, m |-> m, n |-> n]

\* the call panicked, or failed a debug assertion: no Mantissa is returned
NoMantissa == [returned |-> FALSE, m |-> <<0>>, n |-> 0]

\* lines 41-48
new(p) == Mantissa(new_words(p), 0)

\* lines 51-59
oned_mantissa(p) ==
    Mantissa([j \in 1 .. bit_len_to_digit_len(p) |-> DIGIT_MAX],
             DIGIT_BIT_SIZE * bit_len_to_digit_len(p))

\* lines 62-70
min(p) == Mantissa(SetWord(new_words(p), 0, 1), 1)

\* lines 73-83
one(p) ==
    Mantissa(SetWord(new_words(p), bit_len_to_digit_len(p) - 1, Shr(DIGIT_BASE, 1)),
             DIGIT_BIT_SIZE * bit_len_to_digit_len(p))

\* lines 86-96
ten(p) ==
    Mantissa(SetWord(new_words(p), bit_len_to_digit_len(p) - 1,
                     BitOr(Shr(DIGIT_BASE, 1), Shr(DIGIT_BASE, 3))),
             DIGIT_BIT_SIZE * bit_len_to_digit_len(p))

\* line 520: size_of::<u64>() / size_of::<Digit>(), a u64 being two words
U64_DIGITS == 2

\* lines 521-525: nd words of 0, then the words of u
from_u64_words(len, u) ==
    [j \in 1 .. len |->
        IF j <= len - U64_DIGITS THEN 0
        ELSE Shr(u, (j - 1 - (len - U64_DIGITS)) * DIGIT_BIT_SIZE) % DIGIT_BASE]

\* lines 526-532: n is max_bit_len() whatever maximize found
from_u64_maximized(mx) == Mantissa(mx.m, max_bit_len(mx.m))

\* lines 518-533; m.len() - U64_DIGITS below 0 panics (line 520 or 521)
from_u64(p, u) ==
    IF bit_len_to_digit_len(p) < U64_DIGITS THEN NoMantissa
    ELSE from_u64_maximized(maximize(from_u64_words(bit_len_to_digit_len(p), u)))

\* lines 553-560
normilize(x) ==
    IF max_bit_len(x.m) - x.n > 0
    THEN Mantissa(shift_left_m(x.m, max_bit_len(x.m) - x.n), max_bit_len(x.m))
    ELSE Mantissa(x.m, x.n)

\* lines 243-244, 273-274, 320-321, 501-503: the buffer with n = max_bit_len()
full_length(m, failed) == IF failed THEN NoMantissa ELSE Mantissa(m, max_bit_len(m))

(***************************************************************************)
(* The operations that return a Mantissa, as a state machine: a caller     *)
(* holds two normalised operands and makes one call.                       *)
(***************************************************************************)
ConstructorPrecisions == 1 .. MaxWords * DIGIT_BIT_SIZE

U64Values == {0, 1, DIGIT_MAX, DIGIT_BASE, 2 ^ (U64_DIGITS * DIGIT_BIT_SIZE - 1),
              2 ^ (U64_DIGITS * DIGIT_BIT_SIZE) - 1}

InitMantissa ==
    /\ pc = "mantissa_call"
    /\ mant \in Operands
    /\ other \in Operands
    /\ m2_shift = 0
    /\ rm = "ToEven"
    /\ is_positive = TRUE
    /\ old = mant
    /\ k = 1
    /\ ret = NoRet
    /\ self = NoNumber
    /\ radix = "Bin"
    /\ out = Ok(NoDigits)
    /\ inp = NoDigits
    /\ prec = 0
    /\ res = Ok(NoNumber)
    /\ result = NoResult

MantissaReturned(op, p, sh, mode, r) ==
    /\ prec' = p
    /\ m2_shift' = sh
    /\ rm' = mode
    /\ result' = [op |-> op, r |-> r]
    /\ pc' = "mantissa_done"
    /\ UNCHANGED <<mant, old, k, is_positive, ret, self, radix, out, inp, res, other>>

MantissaNew ==
    /\ pc = "mantissa_call"
    /\ \E p \in ConstructorPrecisions : MantissaReturned("new", p, 0, rm, new(p))

MantissaOned ==
    /\ pc = "mantissa_call"
    /\ \E p \in ConstructorPrecisions :
          MantissaReturned("oned_mantissa", p, 0, rm, oned_mantissa(p))

MantissaMin ==
    /\ pc = "mantissa_call"
    /\ \E p \in ConstructorPrecisions : MantissaReturned("min", p, 0, rm, min(p))

MantissaOne ==
    /\ pc = "mantissa_call"
    /\ \E p \in ConstructorPrecisions : MantissaReturned("one", p, 0, rm, one(p))

MantissaTen ==
    /\ pc = "mantissa_call"
    /\ \E p \in ConstructorPrecisions : MantissaReturned("ten", p, 0, rm, ten(p))

\* k' keeps the argument u
MantissaFromU64 ==
    /\ pc = "mantissa_call"
    /\ \E p \in ConstructorPrecisions, u \in U64Values :
          /\ prec' = p
          /\ k' = u
          /\ result' = [op |-> "from_u64", r |-> from_u64(p, u)]
    /\ pc' = "mantissa_done"
    /\ UNCHANGED <<mant, old, rm, is_positive, ret, self, radix, out, inp, res, other,
                   m2_shift>>

\* normilize of a subnormal mantissa: mant shifted right by sh bits, with
\* the bit length of what is left
MantissaNormilize ==
    /\ pc = "mantissa_call"
    /\ \E sh \in 0 .. MaxShift :
          MantissaReturned("normilize", 0, sh, rm,
              normilize(Mantissa(shift_right(mant, sh), find_bit_len(shift_right(mant, sh)))))

MantissaAbsAdd ==
    /\ pc = "mantissa_call"
    /\ \E sh \in 0 .. MaxShift, mode \in ArithModes, debug \in BOOLEAN :
          MantissaReturned("abs_add", 0, sh, mode,
              full_length(abs_add(mant, other, sh, mode, is_positive, debug).m,
                          abs_add(mant, other, sh, mode, is_positive, debug).assert_failed))

MantissaAbsSub ==
    /\ pc = "mantissa_call"
    /\ \E sh \in 0 .. MaxShift, mode \in ArithModes, debug \in BOOLEAN :
          /\ Fraction(mant) * 2 ^ sh >= Fraction(other)
          /\ MantissaReturned("abs_sub", 0, sh, mode,
                 full_length(abs_sub(mant, other, sh, mode, is_positive, debug).m,
                             abs_sub(mant, other, sh, mode, is_positive, debug).assert_failed))

MantissaMul ==
    /\ pc = "mantissa_call"
    /\ \E mode \in ArithModes :
          MantissaReturned("mul", 0, 0, mode,
              full_length(Mantissa_mul(mant, other, mode, is_positive).m, FALSE))

MantissaDiv ==
    /\ pc = "mantissa_call"
    /\ \E mode \in ArithModes :
          MantissaReturned("div", 0, 0, mode,
              full_length(Mantissa_div(mant, other, mode, is_positive).m, FALSE))

NextMantissa ==
    \/ MantissaNew
    \/ MantissaOned
    \/ MantissaMin
    \/ MantissaOne
    \/ MantissaTen
    \/ MantissaFromU64
    \/ MantissaNormilize
    \/ MantissaAbsAdd
    \/ MantissaAbsSub
    \/ MantissaMul
    \/ MantissaDiv

SpecMantissa == InitMantissa /\ [][NextMantissa]_vars

MantissaDone == pc = "mantissa_done" /\ result.r.returned

\* n = 0 exactly when all words are zero, and bit n - 1 is the highest set bit
BitLengthExact(x) == x.n = find_bit_len(x.m)

\* C24: every Mantissa returned by new, oned_mantissa, min, one, ten,
\* from_u64 (of 0 too), normilize, abs_add, abs_sub (of equal operands
\* too), mul and div has n = 0 exactly when all stored words are zero, and
\* when n > 0 bit n - 1 of the stored integer is 1 with no set bit above.
C24_BitLengthExact == MantissaDone => BitLengthExact(result.r)

\* the returned mantissas that break it store the value zero with
\* n = max_bit_len(); every returned mantissa other than zero has its
\* exact bit length
C24_BitLengthExactUnlessZero ==
    MantissaDone =>
        \/ BitLengthExact(result.r)
        \/ /\ find_bit_len(result.r.m) = 0
           /\ result.r.n = max_bit_len(result.r.m)
           /\ result.op \in {"from_u64", "normilize", "abs_sub"}

\* which calls return such a zero: from_u64 of 0, normilize of zero, and
\* abs_sub of operands whose difference is zero
C24_ZeroOnlyFromZero ==
    (MantissaDone /\ ~BitLengthExact(result.r)) =>
        \/ result.op = "from_u64" /\ k = 0
        \/ result.op = "normilize" /\ find_bit_len(shift_right(mant, m2_shift)) = 0
        \/ result.op = "abs_sub"

(***************************************************************************)
(* powi, ops/pow.rs lines 72-114, watched through its loops: the power of  *)
(* self that ret holds.  It is 1 after line 93 (ret = self), squaring      *)
(* doubles it (line 103) and the multiplication by self adds 1 (line 105). *)
(***************************************************************************)
RECURSIVE powi_power(_, _, _)

\* lines 101-108, pw the power held before the round
powi_power(i, bit_pos, pw) ==
    IF bit_pos <= 0 THEN pw
    ELSE powi_power(Shl(i, 1), bit_pos - 1,
                    2 * pw + (IF i \div DIGIT_SIGNIFICANT_BIT # 0 THEN 1 ELSE 0))

\* lines 82-108: the scan, the value bit_pos has after it, and the power
\* the square-and-multiply loop reaches from it
powi_watched(scan) ==
    [i |-> scan.i, bit_pos |-> scan.bit_pos,
     power |-> powi_power(scan.i, scan.bit_pos, 1)]

(***************************************************************************)
(* powi as a state machine: a caller holds a non-zero number and raises it *)
(* to the power k, a usize (as wide as a word) that is at least 2.         *)
(***************************************************************************)
PowiBases ==
    {ValueOf(s, e, m) : s \in Signs, e \in {0, 1, 2},
                        m \in {<<DIGIT_SIGNIFICANT_BIT>>, <<DIGIT_MAX>>}}

InitPowi ==
    /\ pc = "powi_call"
    /\ self \in PowiBases
    /\ k \in 2 .. WORD_MAX
    /\ prec \in Precisions
    /\ rm \in {"None", "ToEven"}
    /\ mant = <<0>>
    /\ old = <<0>>
    /\ is_positive = TRUE
    /\ ret = NoRet
    /\ radix = "Bin"
    /\ out = Ok(NoDigits)
    /\ inp = NoDigits
    /\ res = Ok(NoNumber)
    /\ other = <<0>>
    /\ m2_shift = 0
    /\ result = NoResult

Powi ==
    /\ pc = "powi_call"
    /\ res' = powi(self, k, prec, rm)
    /\ result' = [op |-> "powi", r |-> powi_watched(powi_scan(k, WORD_BIT_SIZE))]
    /\ pc' = "powi_done"
    /\ UNCHANGED <<mant, old, k, rm, is_positive, ret, self, radix, out, inp, prec,
                   other, m2_shift>>

NextPowi == Powi

SpecPowi == InitPowi /\ [][NextPowi]_vars

PowiDone == pc = "powi_done"

\* C25: for every non-zero self and every i >= 2 that fits a usize, the two
\* loops of powi multiply out self^i: the power held when the second loop
\* ends is i, and bit_pos never goes below 0.
C25_PowiPower ==
    PowiDone =>
        /\ result.r.bit_pos >= 0
        /\ result.r.power = k

\* the same seen in the value returned: a power of two 2^(e-1) raised to
\* the power i is 2^((e-1)*i)
C25_PowiOfTwo ==
    (PowiDone /\ res.ok /\ self.m = <<DIGIT_SIGNIFICANT_BIT>>) =>
        /\ Odd(res.v).i = 1
        /\ res.v.e = (self.e - 1) * k + 1

\* bit_pos itself never goes below 0
C25_BitPosNeverUnderflows == PowiDone => result.r.bit_pos >= 0

\* the first loop shifts i before it looks at the top bit, so the top bit
\* of i is never seen: the power reached is i without that bit
C25_PowiPowerDropsTopBit ==
    PowiDone =>
        result.r.power = IF k % DIGIT_SIGNIFICANT_BIT = 0 THEN 1 ELSE k % DIGIT_SIGNIFICANT_BIT

(***************************************************************************)
(* conv_from_num_dec, lines 224-312, watched through its loops.  The       *)
(* numbers f, d2, ten_pow, fpnmax and fpn are followed as exact integers:  *)
(* f as the sequence of its decimal digits (it outgrows a machine integer  *)
(* after one group of nine), so that f * 10^t appends t zeros and f + word *)
(* is an addition with carry.                                              *)
(***************************************************************************)
\* the exponent t of a power of ten 10^t
RECURSIVE DecShift(_)
DecShift(ten_pow) == IF ten_pow < 10 THEN 0 ELSE 1 + DecShift(ten_pow \div 10)

RECURSIVE DecAdd(_, _, _)

\* f + c, c added at the digit of index j (Len(f): the last one)
DecAdd(f, j, c) ==
    IF c = 0 THEN f
    ELSE IF j = 0
    THEN DecAdd([t \in 1 .. Len(f) + 1 |-> IF t = 1 THEN 0 ELSE f[t - 1]], 1, c)
    ELSE DecAdd([t \in 1 .. Len(f) |-> IF t = j THEN (f[j] + c) % 10 ELSE f[t]],
                j - 1, (f[j] + c) \div 10)

\* lines 256-258 and 273-274: f = f * ten_pow + word
dec_fold(f, ten_pow, word) ==
    DecAdd([t \in 1 .. Len(f) + DecShift(ten_pow) |-> IF t <= Len(f) THEN f[t] ELSE 0],
           Len(f) + DecShift(ten_pow), word)

RECURSIVE dec_groups(_, _, _, _, _, _)

\* lines 244-262: the digit loop; top is the largest value word has held
dec_groups(digits, j, f, word, i, top) ==
    IF j > Len(digits)
    THEN [f |-> f, word |-> word, i |-> i, top |-> top]
    ELSE IF i + 1 = 9
    THEN dec_groups(digits, j + 1, dec_fold(f, 10 ^ 9, word * 10 + digits[j]), 0, 0,
                    IF word * 10 + digits[j] > top THEN word * 10 + digits[j] ELSE top)
    ELSE dec_groups(digits, j + 1, f, word * 10 + digits[j], i + 1,
                    IF word * 10 + digits[j] > top THEN word * 10 + digits[j] ELSE top)

RECURSIVE dec_ten_pow_loop(_, _)

\* lines 267-270: while i > 0 { ten_pow *= 10; i -= 1 }
dec_ten_pow_loop(ten_pow, i) ==
    IF i > 0 THEN dec_ten_pow_loop(ten_pow * 10, i - 1) ELSE ten_pow

\* variant: i is not lowered before the loop
dec_ten_pow_OneMore(i) == dec_ten_pow_loop(10, i)

\* lines 265-270: ten_pow for a last group of i digits
dec_ten_pow(i) == dec_ten_pow_loop(10, i - 1)

\* lines 264-276: the partial last group
dec_last_group(g) ==
    IF g.i > 0
    THEN [f |-> dec_fold(g.f, dec_ten_pow(g.i), g.word), top |-> g.top,
          i |-> g.i, ten_pow |-> dec_ten_pow(g.i)]
    ELSE [f |-> g.f, top |-> g.top, i |-> 0, ten_pow |-> 1]

RECURSIVE dec_scale_steps(_, _, _, _)

\* lines 285-306: the exponents handed to powi, one for every scaling of f;
\* fuel bounds the passes of the loop of line 288
dec_scale_steps(nabs, nmax, steps, fuel) ==
    IF nabs > nmax
    THEN IF fuel = 0 THEN [steps |-> steps, ended |-> FALSE]
         ELSE dec_scale_steps(nabs - nmax, nmax, Append(steps, nmax), fuel - 1)
    ELSE [steps |-> IF nabs > 0 THEN Append(steps, nabs) ELSE steps, ended |-> TRUE]

\* lines 232-306: what the loops did for these digits and this e
conv_from_num_dec_watched(digits, e) ==
    [g |-> dec_last_group(dec_groups(digits, LeadingZeroDigits(digits, 1) + 1,
                                     <<>>, 0, 0, 0)),
     n |-> e - Len(digits),
     nmax |-> scale_by_1e9(EXPONENT_MAX, 301029, 995),
     sc |-> dec_scale_steps(Abs(e - Len(digits)), scale_by_1e9(EXPONENT_MAX, 301029, 995),
                            <<>>, Abs(e - Len(digits)))]

(***************************************************************************)
(* The decimal input as a state machine: a caller holds up to DecimalLen   *)
(* digits, enough for a full group of nine and a partial one, and an       *)
(* exponent.                                                               *)
(***************************************************************************)
DecimalLen == 10

DecimalDigits == {0, 1, 9}

DecimalExponents == {EXPONENT_MIN, 0, EXPONENT_MAX}

InitDecimal ==
    /\ pc = "dec_call"
    /\ inp \in {[s |-> "Pos", digits |-> d, e |-> e] :
                  d \in UNION {[1 .. len -> DecimalDigits] : len \in 0 .. DecimalLen},
                  e \in DecimalExponents}
    /\ mant = <<0>>
    /\ old = <<0>>
    /\ k = 1
    /\ rm = "None"
    /\ is_positive = TRUE
    /\ ret = NoRet
    /\ self = NoNumber
    /\ radix = "Dec"
    /\ out = Ok(NoDigits)
    /\ prec = 0
    /\ res = Ok(NoNumber)
    /\ other = <<0>>
    /\ m2_shift = 0
    /\ result = NoResult

ConvFromNumDec ==
    /\ pc = "dec_call"
    /\ result' = [op |-> "conv_from_num_dec",
                  r |-> conv_from_num_dec_watched(inp.digits, inp.e)]
    /\ pc' = "dec_done"
    /\ UNCHANGED <<mant, old, k, rm, is_positive, ret, self, radix, out, inp, prec, res,
                   other, m2_shift>>

NextDecimal == ConvFromNumDec

SpecDecimal == InitDecimal /\ [][NextDecimal]_vars

DecimalDone == pc = "dec_done"

\* a digit sequence without its leading zeros
Stripped(d) ==
    [t \in 1 .. Len(d) - LeadingZeroDigits(d, 1) |-> d[t + LeadingZeroDigits(d, 1)]]

RECURSIVE SeqSum(_, _)
SeqSum(q, j) == IF j > Len(q) THEN 0 ELSE q[j] + SeqSum(q, j + 1)

\* C26: for every sequence of decimal digits and every e, each group word
\* stays below 10^9, the partial last group of i digits is scaled by
\* exactly 10^i, the integer accumulated is the integer the digits denote,
\* and the powers of ten of the scaling (steps of 10^nmax and one last
\* step) add up to |e - len(digits)|, none above nmax; the loop ends.
C26_DecimalInputAccounting ==
    DecimalDone =>
        /\ result.r.g.top < 10 ^ 9
        /\ result.r.g.ten_pow = 10 ^ result.r.g.i
        /\ Stripped(result.r.g.f) = Stripped(inp.digits)
        /\ result.r.sc.ended
        /\ SeqSum(result.r.sc.steps, 1) = Abs(inp.e - Len(inp.digits))
        /\ \A j \in 1 .. Len(result.r.sc.steps) : result.r.sc.steps[j] <= result.r.nmax

\* ten digits: a full group of nine and a last group of one, scaled in
\* several steps of 10^nmax and a last step
C26_Witness ==
    /\ DecimalDone
    /\ Len(inp.digits) = DecimalLen
    /\ inp.digits[1] = 9
    /\ result.r.g.i = 1
    /\ result.r.g.top > 10 ^ 8
    /\ Len(result.r.sc.steps) > 2
    /\ result.r.sc.steps[Len(result.r.sc.steps)] < result.r.nmax

(***************************************************************************)
(* conv_from_commensurable, line 159: e as isize * shift as isize +        *)
(* e_shift, in the isize of the target.  The exponent is a machine integer *)
(* of EXPONENT_BITS bits (EXPONENT_MIN .. EXPONENT_MAX); isize is as wide  *)
(* as the exponent on a 32-bit target and twice as wide on a 64-bit one.   *)
(* An isize operation that leaves the range panics in a build with         *)
(* overflow checks and wraps in a build without them.                      *)
(***************************************************************************)
EXPONENT_BITS == 5

IsizeBits == {EXPONENT_BITS, 2 * EXPONENT_BITS}

\* v wrapped to a signed integer of bits bits
isize_wrap(v, bits) == ((v + 2 ^ (bits - 1)) % 2 ^ bits) - 2 ^ (bits - 1)

\* line 159, wrapped after the multiplication and after the addition
isize_exponent(e0, shift, e_shift, bits) ==
    [e |-> isize_wrap(isize_wrap(e0 * shift, bits) + e_shift, bits),
     wraps |-> \/ isize_wrap(e0 * shift, bits) # e0 * shift
               \/ isize_wrap(isize_wrap(e0 * shift, bits) + e_shift, bits)
                     # e0 * shift + e_shift]

\* variant: the exponent is taken at the width of the exponent type
\* whatever the target
isize_exponent_Narrow(e0, shift, e_shift, bits) ==
    [e |-> isize_wrap(isize_wrap(e0 * shift, EXPONENT_BITS) + e_shift, EXPONENT_BITS),
     wraps |-> \/ isize_wrap(e0 * shift, EXPONENT_BITS) # e0 * shift
               \/ isize_wrap(isize_wrap(e0 * shift, EXPONENT_BITS) + e_shift, EXPONENT_BITS)
                     # e0 * shift + e_shift]

\* lines 150-220 with the exponent ex of line 159; checked: the build
\* panics on overflow
from_commensurable_isize(sign, digits, shift, p, mode, scan, ex, checked) ==
    IF scan.invalid
    THEN [r |-> NumErr("InvalidArgument", sign), reached |-> FALSE, wraps |-> FALSE,
          e |-> 0, subnormal |-> FALSE]
    ELSE IF scan.zeroes = Len(digits)
    THEN [r |-> Ok(Number(sign, 0, new_words(p), 0, FALSE)), reached |-> FALSE,
          wraps |-> FALSE, e |-> 0, subnormal |-> FALSE]
    ELSE IF ex.wraps /\ checked
    THEN [r |-> NumErr("panic", sign), reached |-> TRUE, wraps |-> TRUE,
          e |-> ex.e, subnormal |-> FALSE]
    ELSE [r |-> from_commensurable_exponent(
                    sign, digits, shift, p, mode, scan,
                    new_words((Len(digits) - scan.zeroes) * shift + WORD_BIT_SIZE), ex.e),
          reached |-> TRUE, wraps |-> ex.wraps, e |-> ex.e,
          subnormal |-> ex.e <= EXPONENT_MAX /\ ex.e < EXPONENT_MIN]

from_commensurable_on(sign, digits, e0, shift, p, mode, scan, bits, checked) ==
    from_commensurable_isize(sign, digits, shift, p, mode, scan,
                             isize_exponent(e0, shift, scan.e_shift, bits), checked)

\* conv_from_commensurable on a target whose isize has bits bits
conv_from_commensurable_on(sign, digits, e0, shift, p, mode, bits, checked) ==
    from_commensurable_on(sign, digits, e0, shift, p, mode,
                          from_commensurable_scan(digits, 1, shift, 0, 0), bits, checked)

(***************************************************************************)
(* Octal and hexadecimal input as a state machine: a caller holds digits   *)
(* and an exponent in range and converts them once, on either target.      *)
(***************************************************************************)
CommensurableDigits == {0, 1, 7, 15}

InitCommensurable ==
    /\ pc = "commensurable_call"
    /\ inp \in {[s |-> s, digits |-> d, e |-> e] :
                  s \in Signs,
                  d \in UNION {[1 .. len -> CommensurableDigits] : len \in 1 .. MaxDigits},
                  e \in EXPONENT_MIN .. EXPONENT_MAX}
    /\ radix \in {"Oct", "Hex"}
    /\ prec = WORD_BIT_SIZE
    /\ rm = "ToEven"
    /\ mant = <<0>>
    /\ old = <<0>>
    /\ k = 1
    /\ is_positive = TRUE
    /\ ret = NoRet
    /\ self = NoNumber
    /\ out = Ok(NoDigits)
    /\ res = Ok(NoNumber)
    /\ other = <<0>>
    /\ m2_shift = 0
    /\ result = NoResult

\* k' keeps the width of isize
ConvFromCommensurable ==
    /\ pc = "commensurable_call"
    /\ \E bits \in IsizeBits, checked \in BOOLEAN :
          /\ k' = bits
          /\ result' = [op |-> "conv_from_commensurable", checked |-> checked,
                        r |-> conv_from_commensurable_on(
                                  inp.s, inp.digits, inp.e, IF radix = "Oct" THEN 3 ELSE 4,
                                  prec, rm, bits, checked)]
    /\ res' = result'.r.r
    /\ pc' = "commensurable_done"
    /\ UNCHANGED <<mant, old, rm, is_positive, ret, self, radix, out, inp, prec,
                   other, m2_shift>>

NextCommensurable == ConvFromCommensurable

SpecCommensurable == InitCommensurable /\ [][NextCommensurable]_vars

\* the call got to line 159: the first non-zero digit is a digit of the radix
CommensurableDone == pc = "commensurable_done" /\ result.r.reached

\* e * s + e_shift as an integer
EffectiveExponent ==
    inp.e * (IF radix = "Oct" THEN 3 ELSE 4)
        + from_commensurable_scan(inp.digits, 1, IF radix = "Oct" THEN 3 ELSE 4, 0, 0).e_shift

\* C27: for every e in range, s in {3, 4} and every digit sequence, the
\* exponent e * s + e_shift of octal and hexadecimal input is computed
\* without wrapping the machine integer on the 32-bit and on the 64-bit
\* target; the call returns Err(ExponentOverflow(sign)) exactly when that
\* exponent is above EXPONENT_MAX, and takes the subnormal path exactly
\* when it is below EXPONENT_MIN.
C27_ExponentNeverWraps ==
    CommensurableDone =>
        /\ ~result.r.wraps
        /\ res = NumErr("ExponentOverflow", inp.s) <=> EffectiveExponent > EXPONENT_MAX
        /\ result.r.subnormal <=> EffectiveExponent < EXPONENT_MIN

\* with an isize twice as wide as the exponent nothing wraps, an exponent
\* above EXPONENT_MAX is an ExponentOverflow of the sign, and the subnormal
\* path is taken exactly below EXPONENT_MIN
C27_WideIsize ==
    (CommensurableDone /\ k = 2 * EXPONENT_BITS) =>
        /\ ~result.r.wraps
        /\ EffectiveExponent > EXPONENT_MAX => res = NumErr("ExponentOverflow", inp.s)
        /\ result.r.subnormal <=> EffectiveExponent < EXPONENT_MIN

\* there an ExponentOverflow below or at EXPONENT_MAX comes from the final
\* rounding only: the exponent is EXPONENT_MAX and the rounding carried
C27_WideIsizeOverflowByRounding ==
    (CommensurableDone /\ k = 2 * EXPONENT_BITS /\ res = NumErr("ExponentOverflow", inp.s)) =>
        EffectiveExponent >= EXPONENT_MAX

(***************************************************************************)
(* toom3_cost_estimate.  The thresholds are the program's; usize is taken  *)
(* LengthBits wide, wide enough for the table and four rounds of the       *)
(* extension loop.                                                         *)
(***************************************************************************)
LengthBits == 22

USIZE_MAX == 2 ^ LengthBits - 1

\* lines 334-340: the rows of the for loop
toom3_rows == <<<<120, 210>>, <<200, 630>>, <<340, 1890>>, <<580, 5670>>,
                <<900, 17010>>, <<1500, 51030>>>>

RECURSIVE toom3_tabled(_, _, _)
\* lines 334-345 from row i on: the low threshold of the first row whose high
\* threshold exceeds l2, or -1
toom3_tabled(l1, l2, i) ==
    IF i > Len(toom3_rows) THEN -1
    ELSE IF l2 < toom3_rows[i][2] THEN toom3_rows[i][1]
    ELSE toom3_tabled(l1, l2, i + 1)

RECURSIVE toom3_extended(_, _, _, _, _, _)
\* lines 348-356: the while loop, usize arithmetic wrapping; overflow
\* records a product that left usize, rounds the passes made
toom3_extended(l1, l2, thrsh1, thrsh2, overflow, rounds) ==
    IF thrsh2 < USIZE_MAX \div 3
    THEN IF l2 < (thrsh2 * 3) % (USIZE_MAX + 1)
         THEN [r |-> l1 >= ((thrsh1 * 16) % (USIZE_MAX + 1)) \div 10,
               overflow |-> overflow \/ thrsh2 * 3 > USIZE_MAX \/ thrsh1 * 16 > USIZE_MAX,
               rounds |-> rounds + 1, fell |-> FALSE]
         ELSE toom3_extended(l1, l2, ((thrsh1 * 16) % (USIZE_MAX + 1)) \div 10,
                             (thrsh2 * 3) % (USIZE_MAX + 1),
                             overflow \/ thrsh2 * 3 > USIZE_MAX \/ thrsh1 * 16 > USIZE_MAX,
                             rounds + 1)
    ELSE [r |-> FALSE, overflow |-> overflow, rounds |-> rounds, fell |-> TRUE]

\* lines 330-357
toom3_cost_estimate(l1, l2) ==
    IF l1 < 70 /\ l2 < 70
    THEN [r |-> FALSE, overflow |-> FALSE, rounds |-> 0, fell |-> FALSE]
    ELSE IF toom3_tabled(l1, l2, 1) >= 0
    THEN [r |-> l1 >= toom3_tabled(l1, l2, 1), overflow |-> FALSE, rounds |-> 0,
          fell |-> FALSE]
    ELSE toom3_extended(l1, l2, 1500, 51030, FALSE, 0)

RECURSIVE Toom3Low(_, _, _)
\* the table of the rule: (70, 70), the rows of the program, and after
\* (1500, 51030) high * 3 and low * 16 / 10 per step; the low threshold of
\* the first row whose high threshold exceeds l2
Toom3Low(l2, low, high) ==
    IF l2 < high THEN low ELSE Toom3Low(l2, (low * 16) \div 10, high * 3)

Toom3RuleLow(l2) ==
    IF l2 < 70 THEN 70
    ELSE IF toom3_tabled(0, l2, 1) >= 0 THEN toom3_tabled(0, l2, 1)
    ELSE Toom3Low(l2, (1500 * 16) \div 10, 51030 * 3)

RECURSIVE Toom3Thresholds(_, _)
\* the thresholds of the extension up to the first high one above USIZE_MAX
Toom3Thresholds(low, high) ==
    {low, high} \cup (IF high > USIZE_MAX THEN {} ELSE Toom3Thresholds((low * 16) \div 10, high * 3))

\* lengths at and next to every threshold
Toom3Lengths ==
    LET ts == {0, 1, 70, USIZE_MAX - 1} \cup Toom3Thresholds(1500, 51030)
                  \cup UNION {{toom3_rows[i][1], toom3_rows[i][2]} : i \in 1 .. Len(toom3_rows)}
    IN  {l \in UNION {{t - 1, t, t + 1} : t \in ts} : l >= 0 /\ l <= USIZE_MAX}

InitToom3 ==
    /\ pc = "toom3_call"
    /\ inp \in {[l1 |-> l1, l2 |-> l2] : l1 \in Toom3Lengths, l2 \in Toom3Lengths}
    /\ inp.l1 <= inp.l2
    /\ radix = "Dec"
    /\ prec = WORD_BIT_SIZE
    /\ rm = "ToEven"
    /\ mant = <<0>>
    /\ old = <<0>>
    /\ k = 1
    /\ is_positive = TRUE
    /\ ret = NoRet
    /\ self = NoNumber
    /\ out = Ok(NoDigits)
    /\ res = Ok(NoNumber)
    /\ other = <<0>>
    /\ m2_shift = 0
    /\ result = NoResult

Toom3CostEstimate ==
    /\ pc = "toom3_call"
    /\ result' = [op |-> "toom3_cost_estimate", r |-> toom3_cost_estimate(inp.l1, inp.l2)]
    /\ pc' = "toom3_done"
    /\ UNCHANGED <<mant, old, k, rm, is_positive, ret, self, radix, out, inp, prec, res,
                   other, m2_shift>>

NextToom3 == Toom3CostEstimate

SpecToom3 == InitToom3 /\ [][NextToom3]_vars

Toom3Done == pc = "toom3_done"

C28_Toom3ByTableUnlessFallen ==
    Toom3Done =>
        /\ ~result.r.fell => (result.r.r <=> inp.l1 >= Toom3RuleLow(inp.l2))
        /\ (inp.l1 < 70 /\ inp.l2 < 70) => ~result.r.r
        /\ ~result.r.overflow

\* the loop falls through exactly for l2 of a third of usize::MAX and more
\* that no generated row covers, and the answer is then false
C28_Toom3FallsThrough ==
    (Toom3Done /\ result.r.fell) =>
        /\ inp.l2 >= USIZE_MAX \div 3
        /\ ~result.r.r

(***************************************************************************)
(* ops/pow.rs: exp, lines 22-61.  cc.e, sinh_series and sqrt are outside   *)
(* the sources: the constant e is its binary expansion cut to the          *)
(* precision asked for, and expf yields one of the values of [1, e) it can *)
(* return.                                                                 *)
(***************************************************************************)
\* cc.e(p, RoundingMode::None): 2783 / 1024 = 2.7177.. cut to p bits
e_const(p) == make_number("Pos", 2783, -10, round_p(p), TRUE)

\* lines 117-127: e^f for 0 <= f < 1; one for f = 0
expf_outcomes(f) ==
    IF is_zero(f)
    THEN {from_word(1, max_bit_len(f.m))}
    ELSE {from_word(1, max_bit_len(f.m)),
          make_number("Pos", 3, -1, max_bit_len(f.m), TRUE),
          make_number("Pos", 5, -1, max_bit_len(f.m), TRUE)}

\* lines 33-43: e_int
exp_int(int, e, p) ==
    IF int > 0
    THEN IF ~e.ok THEN e ELSE powi(e.v, int, max_bit_len(e.v.m), "None")
    ELSE from_word(1, WORD_BIT_SIZE)

\* lines 45-47: the fractional part widened to p + 4 bits, its sign cleared
exp_fract(f, p) ==
    IF ~f.ok THEN f
    ELSE IF ~set_precision(f.v, p + 4, "None").ok THEN set_precision(f.v, p + 4, "None")
    ELSE Ok(set_sign(set_precision(f.v, p + 4, "None").v, "Pos"))

\* lines 54-56: the reciprocal for a negative argument
exp_signed(x, ret_p, r) ==
    IF ~r.ok THEN r
    ELSE IF is_negative(x) THEN div(from_word(1, WORD_BIT_SIZE).v, r.v, ret_p)
    ELSE r

\* lines 58-60
exp_finished(r, p, mode) == IF ~r.ok THEN r ELSE set_precision(r.v, p, mode)

\* lines 50-60 from e_int and e_fract
exp_combined(x, p, mode, e_int, e_fract, ret_p) ==
    exp_finished(exp_signed(x, ret_p, mul(e_int.v, e_fract.v, ret_p)), p, mode)

\* lines 30-60 with the outcome e_fract of expf
exp_evaluated(x, p, mode, e_int, e_fract) ==
    IF ~e_int.ok THEN e_int
    ELSE IF ~e_fract.ok THEN e_fract
    ELSE exp_combined(x, p, mode, e_int, e_fract,
                      IF max_bit_len(e_int.v.m) > max_bit_len(e_fract.v.m)
                      THEN max_bit_len(e_int.v.m) ELSE max_bit_len(e_fract.v.m))

\* lines 23-28: the returns before anything is computed
exp_early(x, p) ==
    IF is_zero(x)
    THEN [early |-> TRUE, r |-> from_word(1, p)]
    ELSE IF x.e > WORD_BIT_SIZE
    THEN [early |-> TRUE, r |-> NumErr("ExponentOverflow", x.s)]
    ELSE [early |-> FALSE, r |-> Ok(NoNumber)]

(***************************************************************************)
(* exp as a state machine: a caller holds an argument and calls exp once.  *)
(***************************************************************************)
ExpArguments ==
    {x \in FiniteValues :
        x.e \in {EXPONENT_MIN, -1, 0, 1, WORD_BIT_SIZE - 1, WORD_BIT_SIZE, WORD_BIT_SIZE + 1,
                 EXPONENT_MAX}}

ExpPrecisions == {WORD_BIT_SIZE, 2 * WORD_BIT_SIZE}

InitExp ==
    /\ pc = "exp_call"
    /\ mant = <<0>>
    /\ old = <<0>>
    /\ k = 1
    /\ is_positive = TRUE
    /\ ret = NoRet
    /\ rm = "ToEven"
    /\ radix = "Bin"
    /\ out = Ok(NoDigits)
    /\ inp = NoDigits
    /\ prec = 0
    /\ res = Ok(NoNumber)
    /\ self \in ExpArguments
    /\ other = <<0>>
    /\ m2_shift = 0
    /\ result = NoResult

ExpReturned(p, mode, early, r) ==
    /\ prec' = p
    /\ rm' = mode
    /\ res' = r
    /\ result' = [op |-> "exp", early |-> early]
    /\ pc' = "exp_done"
    /\ UNCHANGED <<mant, old, k, is_positive, ret, self, radix, out, inp, other, m2_shift>>

ExpEarly ==
    /\ pc = "exp_call"
    /\ exp_early(self, WORD_BIT_SIZE).early
    /\ \E p \in ExpPrecisions, mode \in {"ToEven", "Up", "None"} :
          ExpReturned(p, mode, TRUE, exp_early(self, p).r)

ExpEvaluated ==
    /\ pc = "exp_call"
    /\ ~exp_early(self, WORD_BIT_SIZE).early
    /\ \E p \in ExpPrecisions, mode \in {"ToEven", "Up", "None"} :
          \E e_fract \in expf_outcomes(exp_fract(fract(self), round_p(p)).v) :
             ExpReturned(p, mode, FALSE,
                         exp_evaluated(self, round_p(p), mode,
                                       exp_int(int_as_word(self),
                                               e_const(round_p(p) + 2 + (2 * WORD_BIT_SIZE) \div 8),
                                               round_p(p)),
                                       e_fract))

NextExp == ExpEarly \/ ExpEvaluated

SpecExp == InitExp /\ [][NextExp]_vars

ExpDone == pc = "exp_done"

\* C30: whenever exp returns Err(ExponentOverflow(s)), s is Pos; exp never
\* reports ExponentOverflow(Neg), in particular not for a negative argument
\* of large magnitude.
C30_ExpOverflowIsPositive ==
    (ExpDone /\ ~res.ok /\ res.err = "ExponentOverflow") => res.errsign = "Pos"

\* an ExponentOverflow(Neg) of exp is the return of lines 26-28 for a
\* negative argument whose exponent is above WORD_BIT_SIZE
C30_ExpNegativeOverflowIsEarly ==
    (ExpDone /\ ~res.ok /\ res.err = "ExponentOverflow" /\ res.errsign = "Neg") =>
        /\ result.early
        /\ is_negative(self)
        /\ self.e > WORD_BIT_SIZE

\* every argument whose exponent is above WORD_BIT_SIZE is answered with an
\* ExponentOverflow of its own sign
C30_ExpLargeArgument ==
    (ExpDone /\ ~is_zero(self) /\ self.e > WORD_BIT_SIZE) =>
        res = NumErr("ExponentOverflow", self.s)

\* the other calls return a positive number
C30_ExpEvaluatedPositive ==
    (ExpDone /\ ~result.early) => (res.ok /\ res.v.s = "Pos")

====
